---- MODULE Spec2Model ----
(***************************************************************************)
(* A model of the replica-set consistency checker (dbCheck): the batch     *)
(* hasher (DbCheckHasher) with its missing-keys check, the scoped          *)
(* acquisition (DbCheckAcquisition), the secondary-side batch verification *)
(* (dbCheckBatchOnSecondary) and the oplog-command dispatcher              *)
(* (repl::dbCheckOplogCommand); chains of batches over one range, runs     *)
(* under fairness, and the batchesProcessed counter at its width.          *)
(***************************************************************************)
EXTENDS Integers, Sequences, FiniteSets, TLC

(***************************************************************************)
(* Bounds of the model.                                                    *)
(***************************************************************************)
\* Largest number of _id index entries in a snapshot of a collection.
MaxDocs == 2
\* Largest document size (objsize) in the model, in abstract bytes.
MaxDocSize == 2
\* Largest number of secondary-index entries in a snapshot.
MaxIndexKeys == 2
\* Largest number of ready secondary indexes validated per document.
MaxIndexes == 1
\* Largest maxCount / maxBytes ceiling handed to a hasher.
MaxCeiling == 3
\* Largest value of the dbCheckHealthLogEveryNBatches server parameter.
MaxEveryN == 2
\* Largest value of dbCheckMaxConsecutiveIdenticalIndexKeysPerSnapshot.
MaxConsecutive == 2
\* Largest value the batchesProcessed counter reaches in one behaviour.
MaxBatches == 4

\* Largest number of acquisitions one operation makes in a row.
MaxAcquisitions == 2

\* Largest number of ready secondary indexes of a collection whose documents
\* are validated on their own.
MaxValidatedIndexes == 2

\* Largest number of batch verifications running at the same time.
MaxInvocations == 2

VARIABLES
    params,            \* server parameters and build kind
    batchesProcessed,  \* the file-level counter 'batchesProcessed'
    entry,             \* the oplog entry being applied (NoEntry when idle)
    pc,                \* position of the operation
    snap,              \* the collection as seen through the storage snapshot
    hasher,            \* the DbCheckHasher of the operation (NoHasher if none)
    healthLog,         \* entries the operation appended to the health log
    result,            \* what the operation returned ("none" while running)
    firstRun,          \* the finished earlier hasher run over the same data
    ru                 \* the operation's recovery unit: its modes and snapshot

vars == <<params, batchesProcessed, entry, pc, snap, hasher, healthLog, result,
          firstRun, ru>>

NoEntry == [type |-> "none"]
NoHasher == [status |-> "none"]
NoSnap == [acquired |-> FALSE, error |-> "none"]
NoRun == [status |-> "none"]

(***************************************************************************)
(* Keys.  Keys of the _id index and of a secondary index are naturals;     *)
(* MinKey is below and MaxKey above every stored key.                      *)
(***************************************************************************)
MinKey == 0
MaxKey == MaxDocs + MaxIndexKeys + 1
\* The empty BSONObj a hasher's _lastKeySeen holds before any key was seen.
EmptyKey == MinKey - 1

Min(a, b) == IF a < b THEN a ELSE b

RECURSIVE SeqsUpTo(_, _)
\* All sequences over S of length at most n.
SeqsUpTo(S, n) ==
    IF n = 0 THEN {<<>>}
    ELSE LET shorter == SeqsUpTo(S, n - 1)
         IN shorter \cup {Append(s, x) : s \in {t \in shorter : Len(t) = n - 1}, x \in S}

(***************************************************************************)
(* Stored data.  An item is one entry of the _id index together with what  *)
(* the record store holds for its record id:                               *)
(*   "ok"            a well-formed document with an _id                     *)
(*   "missing"       no record for the record id (findRecord fails)         *)
(*   "malformed"     validateBSON fails with an error other than            *)
(*                   NonConformantBSON                                      *)
(*   "nonconformant" validateBSON fails with NonConformantBSON              *)
(*   "noid"          the stored document has no _id field                   *)
(* The key of the i-th entry of the index is i.                            *)
(***************************************************************************)
ItemKinds == {"ok", "missing", "malformed", "nonconformant", "noid"}

ItemShapes ==
    [kind : {"ok"}, size : 1..MaxDocSize]
        \cup [kind : ItemKinds \ {"ok"}, size : {1}]

WithKeys(shapes) ==
    [i \in 1..Len(shapes) |-> [key |-> i, kind |-> shapes[i].kind, size |-> shapes[i].size]]

\* Every _id index content of at most MaxDocs entries.
DocLists == {WithKeys(s) : s \in SeqsUpTo(ItemShapes, MaxDocs)}

KindCode(kind) ==
    CASE kind = "ok" -> 0
      [] kind = "malformed" -> 1
      [] kind = "nonconformant" -> 2
      [] kind = "noid" -> 3
      [] OTHER -> 4

\* The raw bytes of a stored record, as one number: records that differ in
\* key, size or well-formedness differ in their bytes.
RecordBytes(item) == item.key * 16 + KindCode(item.kind) * 2 + (item.size - 1) + 1

\* The bytes of an index key string without its record id.
KeyStringBytes(key) == key + 1

(***************************************************************************)
(* MD5.  The md5 state is the stream appended so far; the digest is a      *)
(* number computed from the stream, injective on the streams of the model. *)
(***************************************************************************)
DigestBase == 16 * (MaxKey + 1)

md5_init_state == <<>>

md5_append(state, bytes) == Append(state, bytes)

RECURSIVE md5_finish(_)
md5_finish(state) ==
    IF state = <<>> THEN 1
    ELSE md5_finish(SubSeq(state, 1, Len(state) - 1)) * DigestBase + state[Len(state)]

\* Number of hex digits of a digest string.
DigestHexLen == 8

RECURSIVE ToHex(_, _)
\* The 'width' low hex digits of n, most significant first.
ToHex(n, width) ==
    IF width = 0 THEN <<>> ELSE Append(ToHex(n \div 16, width - 1), n % 16)

\* digestToString: the digest as a fixed-width string of hex digits.
digestToString(digest) == ToHex(digest, DigestHexLen)

(***************************************************************************)
(* Health log entries.                                                     *)
(***************************************************************************)
\* dbCheckHealthLogEntry: the entry as built; 'parameters' are added to the
\* data when the descriptor carries them.
dbCheckHealthLogEntry(parameters, severity, msg, scope, operation, data) ==
    [severity |-> severity, scope |-> scope, msg |-> msg, operation |-> operation,
     data |-> data, dbCheckParameters |-> parameters]

\* An entry built without data.
NoData == [absent |-> TRUE]

dbCheckErrorHealthLogEntry(parameters, msg, scope, operation, err, context) ==
    dbCheckHealthLogEntry(parameters, "Error", msg, scope, operation,
                          [success |-> FALSE, error |-> err, context |-> context])

\* The scope handed in is not used: a warning entry always has Cluster scope.
dbCheckWarningHealthLogEntry(parameters, msg, scope, operation, err, context) ==
    dbCheckHealthLogEntry(parameters, "Warning", msg, "Cluster", operation,
                          [success |-> FALSE, error |-> err, context |-> context])

RECURSIVE HexValue(_)
\* The number a string of hex digits denotes.
HexValue(digits) ==
    IF digits = <<>> THEN 0
    ELSE HexValue(SubSeq(digits, 1, Len(digits) - 1)) * 16 + digits[Len(digits)]

\* Variant: the digests are compared as the numbers they denote.
expectedFound_numeric(expected, found) ==
    [match |-> HexValue(expected) = HexValue(found),
     obj |-> [expected |-> expected, found |-> found]]

\* expectedFound for strings: whether they are equal, and the object reported.
expectedFound(expected, found) ==
    [match |-> expected = found, obj |-> [expected |-> expected, found |-> found]]

\* Namespaces: an ordinary collection and the three bookkeeping collections.
UserNss == "test.coll"
PreImagesNss == "config.system.preimages"
ConfigImagesNss == "config.image_collection"
ChangeCollectionNss == "config.system.change_collection"
Namespaces == {UserNss, PreImagesNss, ConfigImagesNss, ChangeCollectionNss}

\* The severity of a batch entry.
BatchSeverity(hashesMatch, nss, options) ==
    IF hashesMatch THEN "Info"
    ELSE IF nss = PreImagesNss \/ nss = ConfigImagesNss \/ nss = ChangeCollectionNss
            \/ options.capped
         THEN "Warning"
         ELSE "Error"

\* Variant: success tells whether the digests match.
BatchSuccess_hashesMatch(hashesMatch) == hashesMatch

\* builder.append("success", true): the success field of a batch entry.
BatchSuccess(hashesMatch) == TRUE

\* dbCheckBatchEntry: the health log entry for a hashed batch.
dbCheckBatchEntry(parameters, batchId, nss, count, bytes, expectedHash, foundHash, batchStart, batchEnd, nConsecutiveIdenticalIndexKeysSeenAtEnd, options) ==
    LET hashes == expectedFound(expectedHash, foundHash)
        body == [success |-> BatchSuccess(hashes.match),
                 count |-> count,
                 bytes |-> bytes,
                 md5 |-> hashes.obj,
                 batchStart |-> batchStart,
                 batchEnd |-> batchEnd,
                 nConsecutiveIdenticalIndexKeysSeenAtEnd |->
                     nConsecutiveIdenticalIndexKeysSeenAtEnd]
        data == IF batchId = "none" THEN body
                ELSE [x \in DOMAIN body \cup {"batchId"} |->
                         IF x = "batchId" THEN batchId ELSE body[x]]
        msg == IF hashes.match THEN "dbCheck batch consistent"
               ELSE "dbCheck batch inconsistent"
    IN dbCheckHealthLogEntry(parameters, BatchSeverity(hashes.match, nss, options), msg,
                             "Cluster", "dbCheckBatch", data)

(***************************************************************************)
(* DbCheckHasher.                                                          *)
(***************************************************************************)
\* The ceilings of a hasher constructed without maxCount / maxBytes.
Unlimited == 1000 * 1000

ValidateModes ==
    {"dataConsistency", "dataConsistencyAndMissingIndexKeysCheck", "extraIndexKeysCheck"}

\* secondaryIndexCheckParameters of a descriptor: "none" when absent.
HasMissingKeysCheck(parameters) == parameters = "dataConsistencyAndMissingIndexKeysCheck"

\* The _id index as the index catalog lists it.
IdIndex == [kind |-> "btree", partial |-> FALSE, filter |-> {}, isIdIndex |-> TRUE]

\* The ready indexes of the index catalog: the _id index, if the collection
\* has one, and the secondary indexes.
IndexCatalog(coll) == (IF coll.idIndex THEN <<IdIndex>> ELSE <<>>) \o coll.indexes

\* The hasher right after construction.  Without an index name the cursor is an
\* _id index scan, which needs the _id index; with the missing-keys check the
\* ready secondary indexes are fetched, the _id index left out.
DbCheckHasher(coll, start, end, parameters, hasIndexName, maxCount, maxBytes) ==
    IF ~hasIndexName /\ ~coll.clustered /\ ~coll.idIndex
    THEN [status |-> "IndexNotFound"]
    ELSE [status |-> "running",
          parameters |-> parameters,
          hasIndexName |-> hasIndexName,
          start |-> start,
          maxKey |-> end,
          maxCount |-> maxCount,
          maxBytes |-> maxBytes,
          stoppedAt |-> "",      \* history: why the loop ended
          indexes |-> IF HasMissingKeysCheck(parameters)
                      THEN SelectSeq(IndexCatalog(coll), LAMBDA d : ~d.isIdIndex)
                      ELSE <<>>,
          state |-> md5_init_state,
          exec |-> 0,
          countDocsSeen |-> 0,
          countKeysSeen |-> 0,
          bytesSeen |-> 0,
          lastKeySeen |-> EmptyKey,
          nConsecutiveIdenticalIndexKeysSeenAtEnd |-> 0,
          missingIndexKeys |-> <<>>]

countSeen(h) == h.countDocsSeen + h.countKeysSeen

\* Variant: an interrupted hashing stops and reports success.
Interrupt_break(h) == [h EXCEPT !.status = "OK", !.stoppedAt = "interrupt"]

\* Variant: the interruption is observed after the item's bytes were appended.
Interrupt_midItem(h) == [h EXCEPT !.status = "Interrupted", !.state = md5_append(@, 0)]

\* iassert(opCtx->checkForInterruptNoAssert()) on an interrupted operation:
\* the hashing function is left with the interruption error.
Interrupt(h) == [h EXCEPT !.status = "Interrupted"]

total(h) == digestToString(md5_finish(h.state))

\* Variant: the count limit is not tested.
_canHashForCollectionCheck_noCount(h, objsize) ==
    IF countSeen(h) = 0 THEN TRUE
    ELSE IF h.bytesSeen + objsize > h.maxBytes THEN FALSE
    ELSE TRUE

\* Variant: the first document is tested against the limits like any other.
_canHashForCollectionCheck_noFirst(h, objsize) ==
    IF h.bytesSeen + objsize > h.maxBytes THEN FALSE
    ELSE IF countSeen(h) + 1 > h.maxCount THEN FALSE
    ELSE TRUE

_canHashForCollectionCheck(h, objsize) ==
    IF countSeen(h) = 0 THEN TRUE
    ELSE IF h.bytesSeen + objsize > h.maxBytes THEN FALSE
    ELSE IF countSeen(h) + 1 > h.maxCount THEN FALSE
    ELSE TRUE

\* Variant: the scan leaves out the end key as well.
CollectionCursor_excludeEnd(coll, start, end) ==
    SelectSeq(coll.docs, LAMBDA it : it.key > start /\ it.key < end)

\* What the _id index scan (or the clustered collection scan) returns: the
\* entries after 'start', up to and including 'end', in key order.
CollectionCursor(coll, start, end) ==
    SelectSeq(coll.docs, LAMBDA it : it.key > start /\ it.key <= end)

\* What the sorted-data cursor returns after seeking to 'start' with the end
\* position at 'end', inclusive.
IndexCursor(coll, start, end) ==
    SelectSeq(coll.ikeys, LAMBDA e : e.key >= start /\ e.key <= end)

\* Variant: indexes of every kind are validated.
IndexIsChecked_anyKind(index, item) == ~(index.partial /\ item.key \notin index.filter)

\* An index is validated for a document unless it is partial and its filter
\* does not match the document, or its access method is neither btree nor
\* hashed.
IndexIsChecked(index, item) ==
    /\ ~(index.partial /\ item.key \notin index.filter)
    /\ index.kind \in {"btree", "hashed"}

\* iam->getKeys: the index keys expected for a document.  A document of size
\* s holds s values in the indexed field (an array when s > 1, which makes the
\* index multikey), and no two documents share a value.
getKeys(item) == {(item.key - 1) * MaxDocSize + j : j \in 1..item.size}

\* The record id of the document that expects an index key.
KeyOwner(key) == ((key - 1) \div MaxDocSize) + 1

\* The keys index i holds: what the documents it covers expect, without the
\* entries that have gone missing from it (coll.absent, as <<index, key>>).
StoredKeys(coll, i) ==
    {k \in UNION {getKeys(coll.docs[d]) : d \in
                     {d \in 1..Len(coll.docs) :
                         ~(coll.indexes[i].partial
                             /\ coll.docs[d].key \notin coll.indexes[i].filter)}} :
        <<i, k>> \notin coll.absent}

\* Variant: the seek lands on the first entry after the key sought.
seekForKeyString_after(coll, i, key) ==
    LET after == {k \in StoredKeys(coll, i) : k > key}
        closest == CHOOSE k \in after : \A other \in after : k <= other
    IN IF after = {} THEN <<>> ELSE <<[keyString |-> closest, loc |-> KeyOwner(closest)]>>

\* cursor->seekForKeyString: the entry at the key if the index holds it, else
\* the closest entry after it; none when the index ends before.
seekForKeyString(coll, i, key) ==
    LET after == {k \in StoredKeys(coll, i) : k >= key}
        closest == CHOOSE k \in after : \A other \in after : k <= other
    IN IF after = {} THEN <<>> ELSE <<[keyString |-> closest, loc |-> KeyOwner(closest)]>>

\* !ksEntry || ksEntry.get().loc != currentRecordId
IsMissingKey(ksEntry, key, currentRecordId) ==
    ksEntry = <<>> \/ ksEntry[1].loc # currentRecordId

RECURSIVE ProbeKeys(_, _, _, _, _)
\* The loop over keyStrings, in key order: one seek per expected key, each
\* counted in _countKeysSeen; a key taken as missing is appended to
\* _missingIndexKeys.
ProbeKeys(h, coll, i, item, keyStrings) ==
    IF keyStrings = {} THEN h
    ELSE LET key == CHOOSE k \in keyStrings : \A other \in keyStrings : k <= other
             ksEntry == seekForKeyString(coll, i, key)
             probed == [h EXCEPT !.countKeysSeen = @ + 1]
             next == IF IsMissingKey(ksEntry, key, item.key)
                     THEN [probed EXCEPT !.missingIndexKeys =
                              Append(@, [indexName |-> i, keyString |-> key,
                                         expectedRecordId |-> item.key])]
                     ELSE probed
         IN ProbeKeys(next, coll, i, item, keyStrings \ {key})

\* Variant: the keys expected for the document are counted among the bytes
\* hashed.
validateMissingKeys_counted(h, coll, item, i) ==
    [h EXCEPT !.bytesSeen = @ + Len(h.indexes) * Cardinality(getKeys(item))]

RECURSIVE validateMissingKeys(_, _, _, _)
\* validateMissingKeys over the indexes from position i on: the indexes that
\* are not validated for the document are passed over, the expected keys of
\* the others are probed.
validateMissingKeys(h, coll, item, i) ==
    IF i > Len(h.indexes) THEN h
    ELSE IF ~IndexIsChecked(h.indexes[i], item)
         THEN validateMissingKeys(h, coll, item, i + 1)
         ELSE validateMissingKeys(ProbeKeys(h, coll, i, item, getKeys(item)), coll, item, i + 1)

\* Variant: a record missing from the record store fails the hashing.
ContinueAfterMissingRecord_abort(h) == [h EXCEPT !.status = "KeyNotFound"]

\* Variant: the cursor stays on the record that was not found.
ContinueAfterMissingRecord_sameItem(h) == [h EXCEPT !.exec = @ - 1]

\* 'continue' after a record was not found in the record store: the loop goes
\* on with the hasher as it is.
ContinueAfterMissingRecord(h) == h

\* Variant: a document without _id is passed over.
ReturnMissingId_skip(h) == h

\* return Status(ErrorCodes::NoSuchKey, ...) for a document without _id.
ReturnMissingId(h) == [h EXCEPT !.status = "NoSuchKey"]

\* validateBSON on the raw bytes of a record.
validateBSON(item) ==
    CASE item.kind = "malformed" -> "InvalidBSON"
      [] item.kind = "nonconformant" -> "NonConformantBSON"
      [] OTHER -> "OK"

\* Variant: the record is validated in every validation mode.
ValidationEntries_everyMode(parameters, item, context) ==
    IF validateBSON(item) = "OK" THEN <<>>
    ELSE IF validateBSON(item) # "NonConformantBSON"
    THEN <<dbCheckErrorHealthLogEntry(parameters, "Document is not well-formed BSON",
                                      "Document", "dbCheckBatch", validateBSON(item),
                                      context)>>
    ELSE <<dbCheckWarningHealthLogEntry(parameters, "Document is not well-formed BSON",
                                        "Document", "dbCheckBatch", validateBSON(item),
                                        context)>>

\* The entries written for the validation of a record's bytes: the record is
\* validated with the missing-keys check only; a failure is an Error entry,
\* a NonConformantBSON failure a Warning entry.
ValidationEntries(parameters, item, context) ==
    IF ~HasMissingKeysCheck(parameters) \/ validateBSON(item) = "OK" THEN <<>>
    ELSE IF validateBSON(item) # "NonConformantBSON"
    THEN <<dbCheckErrorHealthLogEntry(parameters, "Document is not well-formed BSON",
                                      "Document", "dbCheckBatch", validateBSON(item),
                                      context)>>
    ELSE <<dbCheckWarningHealthLogEntry(parameters, "Document is not well-formed BSON",
                                        "Document", "dbCheckBatch", validateBSON(item),
                                        context)>>

\* Variant: a record that failed validation is not hashed.
HashRecord_skipInvalid(h, item) ==
    IF validateBSON(item) # "OK" THEN h
    ELSE [h EXCEPT !.lastKeySeen = item.key,
                   !.countDocsSeen = @ + 1,
                   !.bytesSeen = @ + item.size,
                   !.state = md5_append(@, RecordBytes(item))]

\* Variant: _lastKeySeen is not updated when a record is hashed.
HashRecord_keepLastKey(h, item) ==
    [h EXCEPT !.countDocsSeen = @ + 1,
              !.bytesSeen = @ + item.size,
              !.state = md5_append(@, RecordBytes(item))]

\* The end of an iteration: _lastKeySeen, the counts and the md5 state are
\* updated with the record.
HashRecord(h, item) ==
    [h EXCEPT !.lastKeySeen = item.key,
              !.countDocsSeen = @ + 1,
              !.bytesSeen = @ + item.size,
              !.state = md5_append(@, RecordBytes(item))]

\* Variant: the last key is the end of the range however the loop ended.
LastKeyAfterScan_always(h, lastState) == h.maxKey

\* if (lastState == PlanExecutor::IS_EOF) _lastKeySeen = _maxKey, after the
\* loop of hashForCollectionCheck.
LastKeyAfterScan(h, lastState) == IF lastState = "IS_EOF" THEN h.maxKey ELSE h.lastKeySeen

\* One iteration of the loop of hashForCollectionCheck, from getNext() to the
\* deadline test, or the end of the function when the cursor is exhausted.
\* 'interrupted' is what checkForInterruptNoAssert finds, 'late' whether the
\* deadline has passed.  Yields the hasher and the health log entries written.
hashForCollectionCheck(h, coll, interrupted, late) ==
    LET cursor == CollectionCursor(coll, h.start, h.maxKey)
        parameters == h.parameters
    IN IF h.exec >= Len(cursor)
       THEN \* IS_EOF: the last key is the end of the range.
            [h |-> [h EXCEPT !.lastKeySeen = LastKeyAfterScan(h, "IS_EOF"),
                             !.status = "OK", !.stoppedAt = "eof"],
             log |-> <<>>]
       ELSE
       LET item == cursor[h.exec + 1]
           adv == [h EXCEPT !.exec = @ + 1]
           context == [recordID |-> item.key, objId |-> item.key]
           missingRecord ==
               dbCheckErrorHealthLogEntry(parameters, "Error fetching record from record id",
                                          "Document", "dbCheckBatch", "KeyNotFound", context)
           validation == ValidationEntries(parameters, item, context)
           cleared == [adv EXCEPT !.missingIndexKeys = <<>>]
           validated == IF HasMissingKeysCheck(h.parameters)
                        THEN validateMissingKeys(cleared, coll, item, 1)
                        ELSE adv
           missingKeys ==
               IF HasMissingKeysCheck(h.parameters) /\ Len(validated.missingIndexKeys) > 0
               THEN <<dbCheckErrorHealthLogEntry(
                         parameters, "Document has missing index keys", "Document",
                         "dbCheckBatch", "NoSuchKey",
                         [recordID |-> item.key, objId |-> item.key,
                          missingIndexKeys |-> validated.missingIndexKeys])>>
               ELSE <<>>
           hashed == HashRecord(validated, item)
       IN IF interrupted
          THEN [h |-> Interrupt(adv), log |-> <<>>]
          ELSE IF item.kind = "missing"
          THEN [h |-> ContinueAfterMissingRecord(adv), log |-> <<missingRecord>>]
          ELSE IF item.kind = "noid"
          THEN [h |-> ReturnMissingId(adv), log |-> validation]
          ELSE IF ~_canHashForCollectionCheck(adv, item.size)
          THEN [h |-> [adv EXCEPT !.status = "OK", !.stoppedAt = "ceiling"], log |-> validation]
          ELSE IF late
          THEN [h |-> [hashed EXCEPT !.lastKeySeen = LastKeyAfterScan(hashed, "ADVANCED"),
                                  !.status = "OK", !.stoppedAt = "deadline"],
                log |-> validation \o missingKeys]
          ELSE [h |-> hashed, log |-> validation \o missingKeys]

\* Variant: the loop also ends once _countKeysSeen has reached _maxCount.
MoreIndexKeys_untilMaxCount(h, cursor) ==
    h.exec < Len(cursor) /\ h.countKeysSeen < h.maxCount

\* The condition of the for loop: the cursor returned another entry.
MoreIndexKeys(h, cursor) == h.exec < Len(cursor)

\* Variant: the run is cut only once it is longer than the ceiling.
ReachedMaxConsecutive_strict(nConsecutive, maxConsecutive) == nConsecutive > maxConsecutive

\* _nConsecutiveIdenticalIndexKeysSeenAtEnd >=
\* dbCheckMaxConsecutiveIdenticalIndexKeysPerSnapshot.
ReachedMaxConsecutive(nConsecutive, maxConsecutive) == nConsecutive >= maxConsecutive

\* Variant: _lastKeySeen is left as the loop left it.
LastKeyAfterLoop_unchanged(g) == g.lastKeySeen

\* if (_countKeysSeen == 0) _lastKeySeen = _maxKey: after the loop, a hasher
\* that saw no key has the end of its range as its last key.
LastKeyAfterLoop(g) == IF g.countKeysSeen = 0 THEN g.maxKey ELSE g.lastKeySeen

\* One iteration of the loop of hashForExtraIndexKeysCheck, or the end of the
\* function when the cursor is exhausted.  'maxConsecutive' is
\* dbCheckMaxConsecutiveIdenticalIndexKeysPerSnapshot.
hashForExtraIndexKeysCheck(h, coll, interrupted, maxConsecutive) ==
    LET cursor == IndexCursor(coll, h.start, h.maxKey)
        finish(g, why) ==
            [g EXCEPT !.status = "OK", !.stoppedAt = why,
                      !.lastKeySeen = LastKeyAfterLoop(g)]
    IN IF ~MoreIndexKeys(h, cursor)
       THEN [h |-> finish(h, "eof"), log |-> <<>>]
       ELSE
       LET e == cursor[h.exec + 1]
           adv == [h EXCEPT !.exec = @ + 1]
           hashed == [adv EXCEPT !.bytesSeen = @ + 1,
                                 !.countKeysSeen = @ + 1,
                                 !.state = md5_append(@, KeyStringBytes(e.key)),
                                 !.lastKeySeen = e.key]
           atEnd == [hashed EXCEPT !.nConsecutiveIdenticalIndexKeysSeenAtEnd = @ + 1]
       IN IF interrupted
          THEN [h |-> Interrupt(adv), log |-> <<>>]
          ELSE IF e.key # h.maxKey
          THEN [h |-> hashed, log |-> <<>>]
          ELSE IF ReachedMaxConsecutive(atEnd.nConsecutiveIdenticalIndexKeysSeenAtEnd,
                                        maxConsecutive)
          THEN [h |-> finish(atEnd, "identicalKeys"), log |-> <<>>]
          ELSE [h |-> atEnd, log |-> <<>>]

(***************************************************************************)
(* Snapshots: what an acquisition can find at the read timestamp.          *)
(***************************************************************************)
\* Ready secondary indexes (the _id index is not among them).
IndexShapes ==
    {[kind |-> "btree", partial |-> FALSE, filter |-> {}, isIdIndex |-> FALSE],
     [kind |-> "text", partial |-> FALSE, filter |-> {}, isIdIndex |-> FALSE]}

IndexLists == SeqsUpTo(IndexShapes, MaxIndexes)

\* Index entries that are absent although a document expects them:
\* <<position of the index, index key>>.
AbsentSets(indexes) == IF indexes = <<>> THEN {{}} ELSE {{}, {<<1, 1>>}}

IsSorted(keys) == \A i \in 1..(Len(keys) - 1) : keys[i] <= keys[i + 1]

\* The entries of the named secondary index, in key order; equal keys are
\* told apart by their record ids.
IndexKeyLists ==
    {[i \in 1..Len(keys) |-> [key |-> keys[i], rid |-> i]] :
        keys \in {k \in SeqsUpTo(1..MaxIndexKeys, MaxIndexKeys) : IsSorted(k)}}

Collection(docs, indexes, absent, ikeys, capped, idIndex, namedIndex) ==
    [acquired |-> TRUE, exists |-> TRUE, capped |-> capped, clustered |-> FALSE,
     idIndex |-> idIndex, namedIndex |-> namedIndex,
     docs |-> docs, indexes |-> indexes, absent |-> absent, ikeys |-> ikeys]

\* Collections a collection-range hasher is run over.
CollectionSnaps(docLists, parameters) ==
    UNION {{Collection(docs, indexes, absent, <<>>, FALSE, TRUE, FALSE) :
                docs \in docLists, absent \in AbsentSets(indexes)} :
            indexes \in IF HasMissingKeysCheck(parameters) THEN IndexLists ELSE {<<>>}}

\* Collections an index-range hasher is run over.
IndexSnaps == {Collection(<<>>, <<>>, {}, ikeys, FALSE, TRUE, TRUE) : ikeys \in IndexKeyLists}

\* An index holding the keys 1, 3, 3, 3, 4.
RunOfThreeKeys == <<1, 3, 3, 3, 4>>

RunOfThreeSnap ==
    Collection(<<>>, <<>>, {},
               [i \in 1..Len(RunOfThreeKeys) |-> [key |-> RunOfThreeKeys[i], rid |-> i]],
               FALSE, TRUE, TRUE)

(***************************************************************************)
(* DbCheckAcquisition and the recovery unit.                               *)
(***************************************************************************)
PrepareConflictBehaviors == {"kEnforce", "kIgnoreConflicts", "kIgnoreConflictsAllowWrites"}

DataCorruptionDetectionModes == {"kThrow", "kLogAndContinue"}

\* The recovery unit of an operation that has made no acquisition.
FreshRecoveryUnit ==
    [prepareConflictBehavior |-> "kEnforce", dataCorruptionMode |-> "kThrow",
     snapshotOpen |-> FALSE]

\* swapPrepareConflictBehavior: sets the behavior and yields the previous one.
swapPrepareConflictBehavior(r, prepareConflictBehavior) ==
    [ru |-> [r EXCEPT !.prepareConflictBehavior = prepareConflictBehavior],
     prev |-> r.prepareConflictBehavior]

\* swapDataCorruptionMode: sets the mode and yields the previous one.
swapDataCorruptionMode(r, dataCorruptionMode) ==
    [ru |-> [r EXCEPT !.dataCorruptionMode = dataCorruptionMode],
     prev |-> r.dataCorruptionMode]

\* The constructor of DbCheckAcquisition: the members are initialized in
\* order, the collection acquisition last; 'found' is what the collection
\* acquisition finds, or tells that it raised an error.  When it raises, the
\* constructor is left by the exception with the two modes already swapped,
\* and the destructor does not run.  Yields the recovery unit and the
\* acquisition with its members.
DbCheckAcquisition(r, prepareConflictBehavior, found) ==
    LET conflict == swapPrepareConflictBehavior(r, prepareConflictBehavior)
        corruption == swapDataCorruptionMode(conflict.ru, "kLogAndContinue")
        members == [prevPrepareConflictBehavior |-> conflict.prev,
                    prevDataCorruptionMode |-> corruption.prev]
    IN [ru |-> IF found.acquired
               THEN [corruption.ru EXCEPT !.snapshotOpen = TRUE]
               ELSE corruption.ru,
        acquisition |-> found @@ members]

\* Variant: the destructor restores the prepare conflict behavior only.
DbCheckAcquisition_destroy_conflictOnly(r, acquisition) ==
    swapPrepareConflictBehavior([r EXCEPT !.snapshotOpen = FALSE],
                                acquisition.prevPrepareConflictBehavior).ru

\* The destructor of DbCheckAcquisition: the snapshot is abandoned and the two
\* modes are swapped back.
DbCheckAcquisition_destroy(r, acquisition) ==
    LET abandoned == [r EXCEPT !.snapshotOpen = FALSE]
        corruption == swapDataCorruptionMode(abandoned, acquisition.prevDataCorruptionMode)
    IN swapPrepareConflictBehavior(corruption.ru,
                                   acquisition.prevPrepareConflictBehavior).ru

(***************************************************************************)
(* Hasher runs.                                                            *)
(***************************************************************************)
\* One iteration of hashForCollectionCheck.  A caller that passes a deadline
\* may find it passed after any document; the batch verification passes none.
HashCollectionStep ==
    /\ pc = "hashing"
    /\ hasher.status = "running"
    /\ ~hasher.hasIndexName
    /\ \E interrupted \in BOOLEAN, late \in (IF entry = NoEntry THEN BOOLEAN ELSE {FALSE}) :
          LET r == hashForCollectionCheck(hasher, snap, interrupted, late)
          IN /\ hasher' = r.h
             /\ healthLog' = healthLog \o r.log
    /\ UNCHANGED <<params, batchesProcessed, entry, pc, snap, result, firstRun, ru>>

\* One iteration of hashForExtraIndexKeysCheck.
HashIndexStep ==
    /\ pc = "hashing"
    /\ hasher.status = "running"
    /\ hasher.hasIndexName
    /\ \E interrupted \in BOOLEAN :
          LET r == hashForExtraIndexKeysCheck(hasher, snap, interrupted, params.maxConsecutive)
          IN /\ hasher' = r.h
             /\ healthLog' = healthLog \o r.log
    /\ UNCHANGED <<params, batchesProcessed, entry, pc, snap, result, firstRun, ru>>

\* A second, independent hasher is constructed over the same snapshot with the
\* same arguments, after the first has finished.
HashAgain ==
    /\ pc = "hashing"
    /\ entry = NoEntry
    /\ firstRun = NoRun
    /\ hasher.status \in {"OK", "NoSuchKey", "Interrupted"}
    /\ firstRun' = [status |-> hasher.status, hasher |-> hasher, log |-> healthLog]
    /\ hasher' = DbCheckHasher(snap, hasher.start, hasher.maxKey, hasher.parameters,
                               hasher.hasIndexName, hasher.maxCount, hasher.maxBytes)
    /\ healthLog' = <<>>
    /\ UNCHANGED <<params, batchesProcessed, entry, pc, snap, result, ru>>

CollectionModes == {"none", "dataConsistency", "dataConsistencyAndMissingIndexKeysCheck"}

\* A hasher constructed by a caller that sets the ceilings, about to hash.
HasherInit ==
    /\ ru = [FreshRecoveryUnit EXCEPT !.dataCorruptionMode = "kLogAndContinue",
                                      !.snapshotOpen = TRUE]
    /\ batchesProcessed = 0
    /\ entry = NoEntry
    /\ pc = "hashing"
    /\ healthLog = <<>>
    /\ result = "none"
    /\ firstRun = NoRun
    /\ \/ /\ params = [everyN |-> 1, debugBuild |-> FALSE, skipParam |-> FALSE,
                       maxConsecutive |-> MaxConsecutive]
          /\ \E parameters \in CollectionModes \ {"none"} :
                /\ snap \in CollectionSnaps(DocLists, parameters)
                /\ \E maxCount \in 1..MaxCeiling, maxBytes \in 1..MaxCeiling :
                      hasher = DbCheckHasher(snap, MinKey, MaxKey, parameters, FALSE,
                                             maxCount, maxBytes)
       \/ /\ params \in [everyN : {1}, debugBuild : {FALSE}, skipParam : {FALSE},
                         maxConsecutive : 1..MaxConsecutive]
          /\ snap \in IndexSnaps
          /\ \E end \in (1..MaxIndexKeys) \cup {MaxKey} :
                \E maxCount \in 1..MaxCeiling, maxBytes \in 1..MaxCeiling :
                   hasher = DbCheckHasher(snap, MinKey, end, "extraIndexKeysCheck", TRUE,
                                          maxCount, maxBytes)
       \/ /\ params = [everyN |-> 1, debugBuild |-> FALSE, skipParam |-> FALSE,
                       maxConsecutive |-> 3]
          /\ snap = RunOfThreeSnap
          /\ hasher = DbCheckHasher(snap, 1, 3, "extraIndexKeysCheck", TRUE, 3, Unlimited)

HasherNext == HashCollectionStep \/ HashIndexStep \/ HashAgain

HasherSpec == HasherInit /\ [][HasherNext]_vars

(***************************************************************************)
(* dbCheckBatchOnSecondary, the secondary-side batch verification.         *)
(***************************************************************************)
\* BSON("_id" << elem): the object whose only field is _id.
IdObject(elem) == [field |-> "_id", elem |-> elem]

\* The key a bound object holds: the scans are bounded by the values of the
\* object, whatever the names of its fields.
BoundKey(obj) == obj.elem

\* Variant: the legacy maxKey is used although batchEnd is present.
DecodeBatchEnd_legacy(o) == IdObject(o.maxKey)

\* The decoded range of a batch descriptor: batchStart / batchEnd when
\* present, else the legacy minKey / maxKey as the _id of an object.
DecodeBatchStart(o) == IF o.batchStart = <<>> THEN IdObject(o.minKey) ELSE o.batchStart[1]
DecodeBatchEnd(o) == IF o.batchEnd = <<>> THEN IdObject(o.maxKey) ELSE o.batchEnd[1]

\* Variant: the error entry is written with Warning severity.
BatchErrorEntry_warning(o, err) ==
    dbCheckWarningHealthLogEntry(o.parameters, "replication consistency check", "Cluster",
                                 "dbCheckBatch", err, o)

\* The entry written by the catch block of dbCheckBatchOnSecondary.
BatchErrorEntry(o, err) ==
    dbCheckErrorHealthLogEntry(o.parameters, "replication consistency check", "Cluster",
                               "dbCheckBatch", err, o)

\* Variant: the catch block lets the error out instead of logging it.
CatchDBException_rethrow(o, err) == [log |-> <<>>, result |-> err]

\* The catch block of dbCheckBatchOnSecondary: the error is logged and
\* success returned.
CatchDBException(o, err) == [log |-> <<BatchErrorEntry(o, err)>>, result |-> "OK"]

CollectionGoneEntry(o) ==
    dbCheckHealthLogEntry(o.parameters, "Info", "dbCheck failed", "Cluster", "dbCheckBatch",
                          [success |-> FALSE,
                           info |-> "Collection under dbCheck no longer exists"])

IndexNotFoundEntry(o) ==
    dbCheckHealthLogEntry(o.parameters, "Error", "dbCheck failed", "Index", "dbCheckBatch",
                          [success |-> FALSE, info |-> "cannot find index"])

\* Variant: a collection that is gone is an error of the verification.
CollectionGone_raise(o) ==
    [hasher |-> NoHasher, log |-> CatchDBException(o, "NamespaceNotFound").log,
     result |-> CatchDBException(o, "NamespaceNotFound").result]

\* !acquisition.coll.exists(): the entry is logged and OK returned, before any
\* hasher is made.
CollectionGone(o) == [hasher |-> NoHasher, log |-> <<CollectionGoneEntry(o)>>, result |-> "OK"]

\* Variant: the range is hashed although the index was not found.
IndexNotFound_hashAnyway(o, made) == [hasher |-> made, log |-> <<>>, result |-> "none"]

\* !indexDescriptor: the hasher was emplaced already; the entry is logged and
\* OK returned without hashing.
IndexNotFound(o, made) == [hasher |-> made, log |-> <<IndexNotFoundEntry(o)>>, result |-> "OK"]

\* From the acquisition to the start of hashing, for what the acquisition
\* finds: 'found' is a collection, or tells that acquiring raised an error.
\* Yields the hasher, the entries logged, and the status returned ("none"
\* when hashing goes on).
BatchBegin(o, found) ==
    LET start == BoundKey(DecodeBatchStart(o))
        end == BoundKey(DecodeBatchEnd(o))
        made == DbCheckHasher(found, start, end, o.parameters,
                              o.parameters = "extraIndexKeysCheck", Unlimited, Unlimited)
    IN IF ~found.acquired
       THEN [hasher |-> NoHasher, log |-> CatchDBException(o, found.error).log,
             result |-> CatchDBException(o, found.error).result]
       ELSE IF ~found.exists
       THEN CollectionGone(o)
       ELSE IF made.status # "running"
       THEN [hasher |-> NoHasher, log |-> CatchDBException(o, made.status).log,
             result |-> CatchDBException(o, made.status).result]
       ELSE IF o.parameters = "extraIndexKeysCheck" /\ ~found.namedIndex
       THEN IndexNotFound(o, made)
       ELSE [hasher |-> made, log |-> <<>>, result |-> "none"]

\* Variant: a batch entry is logged by sampling and override alone.
ShouldLogBatch_ignoresSeverity(severity, counter, everyN, debugBuild, logBatchToHealthLog) ==
    LET sampled == (counter % everyN = 0)
        shouldLog == IF logBatchToHealthLog # "none"
                     THEN logBatchToHealthLog = "true"
                     ELSE sampled
    IN debugBuild \/ shouldLog

\* Variant: the sample is taken on the counter before its increment.
ShouldLogBatch_offByOne(severity, counter, everyN, debugBuild, logBatchToHealthLog) ==
    LET sampled == ((counter - 1) % everyN = 0)
        shouldLog == IF logBatchToHealthLog # "none"
                     THEN logBatchToHealthLog = "true"
                     ELSE sampled
    IN debugBuild \/ severity # "Info" \/ shouldLog

\* Variant: the descriptor's logBatchToHealthLog is not looked at.
ShouldLogBatch_noOverride(severity, counter, everyN, debugBuild, logBatchToHealthLog) ==
    LET sampled == (counter % everyN = 0)
    IN debugBuild \/ severity # "Info" \/ sampled

\* Whether a batch entry is written to the health log.
ShouldLogBatch(severity, counter, everyN, debugBuild, logBatchToHealthLog) ==
    LET sampled == (counter % everyN = 0)
        shouldLog == IF logBatchToHealthLog # "none"
                     THEN logBatchToHealthLog = "true"
                     ELSE sampled
    IN debugBuild \/ severity # "Info" \/ shouldLog

\* Variant: the increment adds two.
IncrementedCounter_twice(counter) == counter + 2

\* batchesProcessed++: the value stored, from the value loaded.
IncrementedCounter(counter) == counter + 1

\* From the end of hashing to the return: the digest is compared and the batch
\* entry built and, by ShouldLogBatch, logged; a failed hashing is logged by
\* the catch block.  Yields the entries logged and the new counter.
BatchEnd(o, coll, h, counter, everyN, debugBuild) ==
    LET logEntry ==
            dbCheckBatchEntry(o.parameters, o.batchId, o.nss, countSeen(h), h.bytesSeen,
                              o.md5, total(h), BoundKey(DecodeBatchStart(o)), h.lastKeySeen,
                              h.nConsecutiveIdenticalIndexKeysSeenAtEnd,
                              [capped |-> coll.capped])
    IN IF h.status # "OK" /\ o.parameters = "none" /\ h.status = "KeyNotFound"
       THEN [log |-> <<dbCheckErrorHealthLogEntry(
                         o.parameters, "Error fetching record from record id", "Index",
                         "dbCheckBatch", h.status, NoData)>>,
             result |-> "OK",
             counter |-> counter]
       ELSE IF h.status # "OK"
       THEN [log |-> CatchDBException(o, h.status).log,
             result |-> CatchDBException(o, h.status).result,
             counter |-> counter]
       ELSE [log |-> IF ShouldLogBatch(logEntry.severity, counter + 1, everyN, debugBuild,
                                       o.logBatchToHealthLog)
                     THEN <<logEntry>> ELSE <<>>,
             result |-> "OK",
             counter |-> IncrementedCounter(counter)]

(***************************************************************************)
(* repl::dbCheckOplogCommand, the dispatcher.                              *)
(***************************************************************************)
OplogApplicationModes ==
    {"kSecondary", "kInitialSync", "kUnstableRecovering", "kStableRecovering", "kApplyOpsCmd"}

\* OplogEntries_parse: the type of a dbCheck oplog entry; a string that names
\* no type makes the parser raise BadValue.
OplogEntries_parse(typeString) ==
    IF typeString \in {"batch", "collection", "start", "stop"}
    THEN [ok |-> TRUE, type |-> typeString]
    ELSE [ok |-> FALSE, type |-> "BadValue"]

renderForHealthLog(type) ==
    CASE type = "batch" -> "dbCheckBatch"
      [] type = "collection" -> "dbCheckCollection"
      [] type = "start" -> "dbCheckStart"
      [] type = "stop" -> "dbCheckStop"

oplogApplicationMode(mode) ==
    CASE mode = "kInitialSync" -> "initial sync"
      [] mode = "kUnstableRecovering" -> "unstable recovering"
      [] mode = "kStableRecovering" -> "stable recovering"
      [] mode = "kApplyOpsCmd" -> "applyOps"
      [] OTHER -> "secondary"

\* "cannot execute dbcheck due to ongoing " + oplogApplicationMode
CannotExecuteMsg(mode) ==
    CASE oplogApplicationMode(mode) = "initial sync" ->
             "cannot execute dbcheck due to ongoing initial sync"
      [] oplogApplicationMode(mode) = "unstable recovering" ->
             "cannot execute dbcheck due to ongoing unstable recovering"
      [] oplogApplicationMode(mode) = "stable recovering" ->
             "cannot execute dbcheck due to ongoing stable recovering"
      [] oplogApplicationMode(mode) = "applyOps" ->
             "cannot execute dbcheck due to ongoing applyOps"
      [] OTHER -> "cannot execute dbcheck due to ongoing secondary"

SkippedBatchEntry(o, mode, skipParam) ==
    LET range == [batchStart |-> DecodeBatchStart(o), batchEnd |-> DecodeBatchEnd(o)]
        data == IF o.batchId = "none" THEN range
                ELSE [batchStart |-> range.batchStart, batchEnd |-> range.batchEnd,
                      batchId |-> o.batchId]
        warningMsg ==
            IF skipParam
            THEN "skipping applying dbcheck batch because the 'skipApplyingDbCheckBatchOnSecondary' parameter is on"
            ELSE CannotExecuteMsg(mode)
    IN dbCheckHealthLogEntry(o.parameters, "Warning", warningMsg, "Cluster",
                             renderForHealthLog("batch"), data)

\* Variant: the entry of a start or stop is always an Info entry.
StartStopEntry_info(type, o, mode) ==
    dbCheckHealthLogEntry(o.parameters, "Info", "", "Cluster", renderForHealthLog(type), NoData)

\* The entry written for a start or a stop.
StartStopEntry(type, o, mode) ==
    LET skipDbCheck == mode # "kSecondary"
    IN dbCheckHealthLogEntry(o.parameters,
                             IF skipDbCheck THEN "Warning" ELSE "Info",
                             IF skipDbCheck THEN CannotExecuteMsg(mode) ELSE "",
                             "Cluster", renderForHealthLog(type), NoData)

\* Variant: skipApplyingDbCheckBatchOnSecondary is not looked at.
ShouldVerifyBatch_ignoresParam(mode, skipParam) == ~(mode # "kSecondary")

\* A batch is verified when the entry is applied as a steady-state secondary
\* and skipApplyingDbCheckBatchOnSecondary is off.
ShouldVerifyBatch(mode, skipParam) == ~(mode # "kSecondary") /\ ~skipParam

\* dbCheckOplogCommand up to its return or its call of dbCheckBatchOnSecondary:
\* 'result' is the status returned, "throws" when an exception leaves the
\* function, "none" when the batch verification is called.
dbCheckOplogCommand(typeString, o, mode, skipParam) ==
    LET parsed == OplogEntries_parse(typeString)
        type == parsed.type
    IN IF ~parsed.ok
       THEN [result |-> "throws", log |-> <<>>, verify |-> FALSE]
       ELSE IF type = "collection"
       THEN [result |-> "OK", log |-> <<>>, verify |-> FALSE]
       ELSE IF ~o.wellFormed
       THEN [result |-> "throws", log |-> <<>>, verify |-> FALSE]
       ELSE IF type = "batch"
       THEN IF ShouldVerifyBatch(mode, skipParam)
            THEN [result |-> "none", log |-> <<>>, verify |-> TRUE]
            ELSE [result |-> "OK", log |-> <<SkippedBatchEntry(o, mode, skipParam)>>,
                  verify |-> FALSE]
       ELSE [result |-> "OK", log |-> <<StartStopEntry(type, o, mode)>>, verify |-> FALSE]

(***************************************************************************)
(* Applying dbCheck oplog entries.                                         *)
(***************************************************************************)
\* Digest strings a batch descriptor carries: the digest of nothing, the
\* digest of one document, and the digest of nothing without its leading
\* zeros.
ExpectedDigests ==
    {digestToString(md5_finish(md5_init_state)),
     digestToString(md5_finish(<<RecordBytes([key |-> 1, kind |-> "ok", size |-> 1])>>)),
     <<md5_finish(md5_init_state)>>}

BatchDescriptors ==
    [wellFormed : {TRUE},
     nss : {UserNss, PreImagesNss},
     batchId : {"none", "uuid"},
     logBatchToHealthLog : {"none", "true", "false"},
     parameters : {"none"} \cup ValidateModes,
     md5 : {d \in ExpectedDigests : Len(d) = DigestHexLen},
     batchStart : {<<IdObject(MinKey)>>},
     batchEnd : {<<IdObject(MaxKey)>>},
     minKey : {MinKey},
     maxKey : {MaxKey}]

StartStopDescriptors ==
    [wellFormed : {TRUE}, nss : {UserNss}, parameters : {"none"} \cup ValidateModes]

\* An object that the descriptor's parser rejects.
MalformedObject == [wellFormed |-> FALSE]

OplogObjects(typeString) ==
    CASE typeString = "batch" -> BatchDescriptors \cup {MalformedObject}
      [] typeString \in {"start", "stop"} -> StartStopDescriptors \cup {MalformedObject}
      [] OTHER -> {MalformedObject}

TypeStrings == {"batch", "collection", "start", "stop", "index"}

\* Collections of at most MaxDocs - 1 documents, each of the smallest size: the
\* batch verification sets no ceiling, so that sizes only add up in the count
\* of bytes.
BatchDocLists ==
    {d \in DocLists : Len(d) < MaxDocs /\ \A i \in 1..Len(d) : d[i].size = 1}

\* What the acquisition of a batch verification can find.
AcquireOutcomes(parameters) ==
    {[acquired |-> FALSE, error |-> "SnapshotUnavailable"],
     [acquired |-> TRUE, exists |-> FALSE]}
        \cup (IF parameters = "extraIndexKeysCheck"
              THEN IndexSnaps \cup {Collection(<<>>, <<>>, {}, <<>>, FALSE, TRUE, FALSE)}
              ELSE CollectionSnaps(BatchDocLists, parameters)
                       \cup {Collection(<<>>, <<>>, {}, <<>>, TRUE, TRUE, FALSE),
                             Collection(<<>>, <<>>, {}, <<>>, FALSE, FALSE, FALSE)})

\* dbCheckOplogCommand is called for an oplog entry.
ApplyOplogCommand ==
    /\ pc = "idle"
    /\ batchesProcessed < MaxBatches
    /\ \E typeString \in TypeStrings, mode \in OplogApplicationModes :
          \E o \in OplogObjects(typeString) :
             LET r == dbCheckOplogCommand(typeString, o, mode, params.skipParam)
             IN /\ entry' = [type |-> typeString, mode |-> mode, o |-> o]
                /\ healthLog' = r.log
                /\ result' = r.result
                /\ pc' = IF r.verify THEN "verify" ELSE "returned"
    /\ UNCHANGED <<params, batchesProcessed, snap, hasher, firstRun, ru>>

\* dbCheckBatchOnSecondary, from its start to the start of hashing.
VerifierBegin ==
    /\ pc = "verify"
    /\ \E found \in AcquireOutcomes(entry.o.parameters) :
          LET a == DbCheckAcquisition(ru, "kIgnoreConflictsAllowWrites", found)
              r == BatchBegin(entry.o, found)
          IN /\ snap' = a.acquisition
             /\ ru' = IF found.acquired /\ r.result # "none"
                      THEN DbCheckAcquisition_destroy(a.ru, a.acquisition)
                      ELSE a.ru
             /\ hasher' = r.hasher
             /\ healthLog' = healthLog \o r.log
             /\ result' = r.result
             /\ pc' = IF r.result = "none" THEN "hashing" ELSE "returned"
    /\ UNCHANGED <<params, batchesProcessed, entry, firstRun>>

\* dbCheckBatchOnSecondary, from the end of hashing to its return.
VerifierEnd ==
    /\ pc = "hashing"
    /\ entry # NoEntry
    /\ hasher.status # "running"
    /\ LET r == BatchEnd(entry.o, snap, hasher, batchesProcessed, params.everyN,
                         params.debugBuild)
       IN /\ healthLog' = healthLog \o r.log
          /\ batchesProcessed' = r.counter
          /\ result' = r.result
    /\ ru' = DbCheckAcquisition_destroy(ru, snap)
    /\ pc' = "returned"
    /\ UNCHANGED <<params, entry, snap, hasher, firstRun>>

\* The applier is done with the oplog entry: the operation's hasher,
\* acquisition and descriptor are gone, the counter stays.
Return ==
    /\ pc = "returned"
    /\ pc' = "idle"
    /\ entry' = NoEntry
    /\ snap' = NoSnap
    /\ hasher' = NoHasher
    /\ healthLog' = <<>>
    /\ result' = "none"
    /\ UNCHANGED <<params, batchesProcessed, firstRun, ru>>

Init ==
    /\ ru = FreshRecoveryUnit
    /\ params \in [everyN : 1..MaxEveryN, debugBuild : BOOLEAN, skipParam : BOOLEAN,
                   maxConsecutive : {MaxConsecutive}]
    /\ batchesProcessed = 0
    /\ entry = NoEntry
    /\ pc = "idle"
    /\ snap = NoSnap
    /\ hasher = NoHasher
    /\ healthLog = <<>>
    /\ result = "none"
    /\ firstRun = NoRun

Next ==
    \/ ApplyOplogCommand
    \/ VerifierBegin
    \/ HashCollectionStep
    \/ HashIndexStep
    \/ VerifierEnd
    \/ Return

Spec == Init /\ [][Next]_vars

(***************************************************************************)
(* dbCheckBatchEntry on its own.                                           *)
(***************************************************************************)
\* Digest strings a hasher yields.
FoundDigests ==
    {digestToString(md5_finish(md5_init_state)),
     digestToString(md5_finish(<<RecordBytes([key |-> 1, kind |-> "ok", size |-> 1])>>))}

\* The arguments of one call of dbCheckBatchEntry.
BatchEntryInit ==
    /\ ru = FreshRecoveryUnit
    /\ params = [everyN |-> 1, debugBuild |-> FALSE, skipParam |-> FALSE,
                 maxConsecutive |-> MaxConsecutive]
    /\ batchesProcessed = 0
    /\ entry \in [type : {"batchEntry"}, nss : Namespaces, capped : BOOLEAN,
                  batchId : {"none", "uuid"}, expected : ExpectedDigests,
                  found : FoundDigests]
    /\ pc = "build"
    /\ snap = NoSnap
    /\ hasher = NoHasher
    /\ healthLog = <<>>
    /\ result = "none"
    /\ firstRun = NoRun

BuildBatchEntry ==
    /\ pc = "build"
    /\ healthLog' = <<dbCheckBatchEntry("none", entry.batchId, entry.nss, 0, 0,
                                        entry.expected, entry.found, MinKey, MaxKey, 0,
                                        [capped |-> entry.capped])>>
    /\ pc' = "built"
    /\ UNCHANGED <<params, batchesProcessed, entry, snap, hasher, result, firstRun, ru>>

BatchEntryNext == BuildBatchEntry

BatchEntrySpec == BatchEntryInit /\ [][BatchEntryNext]_vars

(***************************************************************************)
(* DbCheckAcquisition on its own: an operation that makes acquisitions one *)
(* after the other, each in a scope that is left by a return or by an      *)
(* exception.                                                              *)
(***************************************************************************)
\* What the collection acquisition of the constructor finds.
AcquisitionOutcomes ==
    {[acquired |-> FALSE, error |-> "SnapshotUnavailable"],
     Collection(<<>>, <<>>, {}, <<>>, FALSE, TRUE, FALSE)}

\* An operation whose recovery unit has any modes, before its first
\* acquisition.
AcquisitionInit ==
    /\ ru \in [prepareConflictBehavior : PrepareConflictBehaviors,
                dataCorruptionMode : DataCorruptionDetectionModes,
                snapshotOpen : {FALSE}]
    /\ params = [everyN |-> 1, debugBuild |-> FALSE, skipParam |-> FALSE,
                 maxConsecutive |-> MaxConsecutive]
    /\ batchesProcessed = 0
    /\ entry = [type |-> "scope", n |-> 0]
    /\ pc = "outside"
    /\ snap = NoSnap
    /\ hasher = NoHasher
    /\ healthLog = <<>>
    /\ result = "none"
    /\ firstRun = NoRun

\* A DbCheckAcquisition is constructed; 'entry' keeps what was requested and
\* the recovery unit as it was before.
ConstructAcquisition ==
    /\ pc = "outside"
    /\ entry.n < MaxAcquisitions
    /\ \E requested \in PrepareConflictBehaviors, found \in AcquisitionOutcomes :
          LET a == DbCheckAcquisition(ru, requested, found)
          IN /\ ru' = a.ru
             /\ snap' = a.acquisition
             /\ entry' = [type |-> "scope", n |-> entry.n + 1, requested |-> requested,
                          before |-> ru]
             /\ pc' = IF found.acquired THEN "inScope" ELSE "thrown"
             /\ result' = IF found.acquired THEN "none" ELSE found.error
    /\ UNCHANGED <<params, batchesProcessed, hasher, healthLog, firstRun>>

\* The scope of the acquisition is left, by a return or by an exception
\* thrown inside it: the destructor runs.
LeaveScope ==
    /\ pc = "inScope"
    /\ ru' = DbCheckAcquisition_destroy(ru, snap)
    /\ \E how \in {"OK", "Interrupted"} : result' = how
    /\ pc' = "left"
    /\ UNCHANGED <<params, batchesProcessed, entry, snap, hasher, healthLog, firstRun>>

\* The operation goes on after the scope, or after the handler of the
\* exception the constructor raised.
ContinueOperation ==
    /\ pc \in {"left", "thrown"}
    /\ pc' = "outside"
    /\ entry' = [type |-> "scope", n |-> entry.n]
    /\ snap' = NoSnap
    /\ result' = "none"
    /\ UNCHANGED <<params, batchesProcessed, hasher, healthLog, firstRun, ru>>

AcquisitionNext == ConstructAcquisition \/ LeaveScope \/ ContinueOperation

AcquisitionSpec == AcquisitionInit /\ [][AcquisitionNext]_vars

(***************************************************************************)
(* The missing-keys check on its own: collections of well-formed           *)
(* documents with secondary indexes of every kind, hashed without ceilings,*)
(* deadline or interruption.                                               *)
(***************************************************************************)
\* Ready secondary indexes: btree, hashed, text, and a partial btree index
\* whose filter only the document with _id 2 matches.
ValidatedIndexShapes ==
    IndexShapes
        \cup {[kind |-> "hashed", partial |-> FALSE, filter |-> {}, isIdIndex |-> FALSE],
              [kind |-> "btree", partial |-> TRUE, filter |-> {2}, isIdIndex |-> FALSE]}

\* The keys an index may lack: none, the first key of the first document, its
\* second key, the first keys of the first two documents.
LackedKeys == {{}, {1}, {2}, {1, MaxDocSize + 1}}

\* An index with the keys it lacks.  Only the plain btree index takes every
\* choice of LackedKeys; the others lack nothing or the first key of every
\* document they could hold.
ValidatedIndexes ==
    {x \in [shape : ValidatedIndexShapes, lacks : LackedKeys] :
        \/ x.shape.kind = "btree" /\ ~x.shape.partial
        \/ x.lacks = {}
        \/ x.lacks = IF x.shape.partial THEN {1, MaxDocSize + 1} ELSE {1}}

ValidatedDocLists == {d \in DocLists : \A i \in 1..Len(d) : d[i].kind = "ok"}

ValidatedSnap(docs, ixs) ==
    Collection(docs, [i \in DOMAIN ixs |-> ixs[i].shape],
               UNION {{<<i, k>> : k \in ixs[i].lacks} : i \in DOMAIN ixs},
               <<>>, FALSE, TRUE, FALSE)

ValidatorInit ==
    /\ ru = [FreshRecoveryUnit EXCEPT !.dataCorruptionMode = "kLogAndContinue",
                                      !.snapshotOpen = TRUE]
    /\ params = [everyN |-> 1, debugBuild |-> FALSE, skipParam |-> FALSE,
                 maxConsecutive |-> MaxConsecutive]
    /\ batchesProcessed = 0
    /\ entry = NoEntry
    /\ pc = "validating"
    /\ healthLog = <<>>
    /\ result = "none"
    /\ firstRun = NoRun
    /\ \E docs \in ValidatedDocLists, n \in 0..MaxValidatedIndexes :
          \E ixs \in [1..n -> ValidatedIndexes] : snap = ValidatedSnap(docs, ixs)
    /\ hasher = DbCheckHasher(snap, MinKey, MaxKey, "dataConsistencyAndMissingIndexKeysCheck",
                              FALSE, Unlimited, Unlimited)

\* One iteration of hashForCollectionCheck with the missing-keys check.
ValidateStep ==
    /\ pc = "validating"
    /\ hasher.status = "running"
    /\ LET r == hashForCollectionCheck(hasher, snap, FALSE, FALSE)
       IN /\ hasher' = r.h
          /\ healthLog' = healthLog \o r.log
    /\ UNCHANGED <<params, batchesProcessed, entry, pc, snap, result, firstRun, ru>>

ValidatorNext == ValidateStep

ValidatorSpec == ValidatorInit /\ [][ValidatorNext]_vars

(***************************************************************************)
(* Batch descriptors in the legacy and the current encoding of the range,  *)
(* applied over collections with documents inside and outside the range.   *)
(***************************************************************************)
\* Descriptors with each bound present or absent, and legacy keys that differ
\* from the bounds or not.
RangeDescriptors ==
    [wellFormed : {TRUE},
     nss : {UserNss},
     batchId : {"none"},
     logBatchToHealthLog : {"true"},
     parameters : {"none"},
     md5 : {digestToString(md5_finish(md5_init_state))},
     batchStart : {<<>>} \cup {<<IdObject(k)>> : k \in MinKey..1},
     batchEnd : {<<>>} \cup {<<IdObject(k)>> : k \in 1..MaxDocs},
     minKey : MinKey..1,
     maxKey : 1..MaxDocs]

\* Collections of well-formed documents of the smallest size.
RangeSnaps ==
    {Collection(docs, <<>>, {}, <<>>, FALSE, TRUE, FALSE) :
        docs \in {d \in DocLists : \A i \in 1..Len(d) : d[i].kind = "ok" /\ d[i].size = 1}}

RangeInit ==
    /\ ru = FreshRecoveryUnit
    /\ params \in [everyN : {1}, debugBuild : {FALSE}, skipParam : BOOLEAN,
                   maxConsecutive : {MaxConsecutive}]
    /\ batchesProcessed = 0
    /\ entry = NoEntry
    /\ pc = "idle"
    /\ snap = NoSnap
    /\ hasher = NoHasher
    /\ healthLog = <<>>
    /\ result = "none"
    /\ firstRun = NoRun

\* dbCheckOplogCommand is called for a batch.
ApplyRangedBatch ==
    /\ pc = "idle"
    /\ \E mode \in {"kSecondary", "kInitialSync"}, o \in RangeDescriptors :
          LET r == dbCheckOplogCommand("batch", o, mode, params.skipParam)
          IN /\ entry' = [type |-> "batch", mode |-> mode, o |-> o]
             /\ healthLog' = r.log
             /\ result' = r.result
             /\ pc' = IF r.verify THEN "verify" ELSE "returned"
    /\ UNCHANGED <<params, batchesProcessed, snap, hasher, firstRun, ru>>

\* dbCheckBatchOnSecondary, from its start to the start of hashing.
RangedVerifierBegin ==
    /\ pc = "verify"
    /\ \E found \in RangeSnaps :
          LET a == DbCheckAcquisition(ru, "kIgnoreConflictsAllowWrites", found)
              r == BatchBegin(entry.o, found)
          IN /\ snap' = a.acquisition
             /\ ru' = a.ru
             /\ hasher' = r.hasher
             /\ healthLog' = healthLog \o r.log
             /\ result' = r.result
             /\ pc' = IF r.result = "none" THEN "hashing" ELSE "returned"
    /\ UNCHANGED <<params, batchesProcessed, entry, firstRun>>

RangeNext == ApplyRangedBatch \/ RangedVerifierBegin \/ HashCollectionStep \/ VerifierEnd

RangeSpec == RangeInit /\ [][RangeNext]_vars

(***************************************************************************)
(* Batch verifications running at the same time, each as an operation of   *)
(* its own.  The verifications have in common the file-level counter       *)
(* batchesProcessed, a plain unsigned int: its increment is a load and a   *)
(* store, and the sampling reads it once more.  In this specification      *)
(* entry, pc, hasher, healthLog and result hold one value per verification.*)
(***************************************************************************)
RECURSIVE HashWholeRange(_, _)
\* hashForCollectionCheck from its call to its return, without interruption
\* or deadline.
HashWholeRange(h, coll) ==
    IF h.status # "running" THEN h
    ELSE HashWholeRange(hashForCollectionCheck(h, coll, FALSE, FALSE).h, coll)

\* A collection of one well-formed document.
OneDocumentSnap ==
    Collection(WithKeys(<<[kind |-> "ok", size |-> 1]>>), <<>>, {}, <<>>, FALSE, TRUE, FALSE)

\* A collection of one stored document without an _id field.
OneDocumentWithoutIdSnap ==
    Collection(WithKeys(<<[kind |-> "noid", size |-> 1]>>), <<>>, {}, <<>>, FALSE, TRUE, FALSE)

\* What one of the verifications is called with and finds.  Over the
\* collection of one document: a descriptor whose digest matches or not, with
\* or without logBatchToHealthLog.  For one of these descriptors: the
\* collection is gone, the acquisition fails, the document has no _id, or the
\* entry is applied during initial sync.  And a descriptor of the extra-keys
\* check that names an index the collection does not have.
InvocationInputs ==
    {x \in [o : {o \in BatchDescriptors :
                    /\ o.nss = UserNss /\ o.batchId = "none"
                    /\ o.parameters \in {"none", "extraIndexKeysCheck"}
                    /\ o.logBatchToHealthLog \in {"none", "false"}},
             found : {OneDocumentSnap, OneDocumentWithoutIdSnap,
                      [acquired |-> TRUE, exists |-> FALSE],
                      [acquired |-> FALSE, error |-> "SnapshotUnavailable"],
                      Collection(<<>>, <<>>, {}, <<>>, FALSE, TRUE, FALSE)},
             mode : {"kSecondary", "kInitialSync"}] :
        \/ x.o.parameters = "none" /\ x.found = OneDocumentSnap /\ x.mode = "kSecondary"
        \/ /\ x.o.parameters = "none" /\ x.o.logBatchToHealthLog = "none"
           /\ x.o.md5 = digestToString(md5_finish(md5_init_state))
           /\ \/ x.found = OneDocumentSnap /\ x.mode = "kInitialSync"
              \/ /\ x.mode = "kSecondary"
                 /\ x.found \in {OneDocumentWithoutIdSnap,
                                 [acquired |-> TRUE, exists |-> FALSE],
                                 [acquired |-> FALSE, error |-> "SnapshotUnavailable"]}
        \/ /\ x.o.parameters = "extraIndexKeysCheck" /\ x.o.logBatchToHealthLog = "none"
           /\ x.o.md5 = digestToString(md5_finish(md5_init_state))
           /\ x.found = Collection(<<>>, <<>>, {}, <<>>, FALSE, TRUE, FALSE)
           /\ x.mode = "kSecondary"}

ConcurrentInit ==
    /\ ru = FreshRecoveryUnit
    /\ params \in [everyN : 1..MaxEveryN, debugBuild : BOOLEAN, skipParam : {FALSE},
                   maxConsecutive : {MaxConsecutive}]
    /\ batchesProcessed = 0
    /\ \E n \in 1..MaxInvocations :
          /\ entry \in [1..n -> InvocationInputs]
          /\ pc = [i \in 1..n |-> "called"]
          /\ hasher = [i \in 1..n |-> NoHasher]
          /\ healthLog = [i \in 1..n |-> <<>>]
          /\ result = [i \in 1..n |-> "none"]
    /\ snap = OneDocumentSnap
    /\ firstRun = NoRun

\* Verification i, from the dispatcher's call to the batch entry it builds: it
\* was skipped, has returned early, has failed in hashing, or has hashed its
\* range.
InvocationHash(i) ==
    /\ pc[i] = "called"
    /\ LET d == dbCheckOplogCommand("batch", entry[i].o, entry[i].mode, params.skipParam)
           r == BatchBegin(entry[i].o, entry[i].found)
           h == HashWholeRange(r.hasher, entry[i].found)
           failed == BatchEnd(entry[i].o, entry[i].found, h, batchesProcessed,
                              params.everyN, params.debugBuild)
       IN IF ~d.verify
          THEN /\ healthLog' = [healthLog EXCEPT ![i] = d.log]
               /\ result' = [result EXCEPT ![i] = d.result]
               /\ pc' = [pc EXCEPT ![i] = "returned"]
               /\ UNCHANGED hasher
          ELSE IF r.result # "none"
          THEN /\ healthLog' = [healthLog EXCEPT ![i] = r.log]
               /\ result' = [result EXCEPT ![i] = r.result]
               /\ pc' = [pc EXCEPT ![i] = "returned"]
               /\ UNCHANGED hasher
          ELSE IF h.status # "OK"
          THEN /\ healthLog' = [healthLog EXCEPT ![i] = failed.log]
               /\ result' = [result EXCEPT ![i] = failed.result]
               /\ pc' = [pc EXCEPT ![i] = "returned"]
               /\ UNCHANGED hasher
          ELSE /\ hasher' = [hasher EXCEPT ![i] = h]
               /\ pc' = [pc EXCEPT ![i] = "hashed"]
               /\ UNCHANGED <<healthLog, result>>
    /\ UNCHANGED <<params, batchesProcessed, entry, snap, firstRun, ru>>

\* batchesProcessed++, the load.
InvocationLoad(i) ==
    /\ pc[i] = "hashed"
    /\ hasher' = [hasher EXCEPT ![i] = [h |-> hasher[i], loaded |-> batchesProcessed]]
    /\ pc' = [pc EXCEPT ![i] = "loaded"]
    /\ UNCHANGED <<params, batchesProcessed, entry, snap, healthLog, result, firstRun, ru>>

\* batchesProcessed++, the store.
InvocationStore(i) ==
    /\ pc[i] = "loaded"
    /\ batchesProcessed' = IncrementedCounter(hasher[i].loaded)
    /\ pc' = [pc EXCEPT ![i] = "stored"]
    /\ UNCHANGED <<params, entry, snap, hasher, healthLog, result, firstRun, ru>>

\* Variant: the sampling uses the value the increment computed.
SampledCounter_own(counter, loaded) == loaded + 1

\* batchesProcessed % gDbCheckHealthLogEveryNBatches.load(): the counter is
\* read again, after the increment.
SampledCounter(counter, loaded) == counter

\* Verification i reads the counter for the sampling, logs the batch entry or
\* not, and returns.
InvocationSample(i) ==
    /\ pc[i] = "stored"
    /\ LET r == BatchEnd(entry[i].o, entry[i].found, hasher[i].h,
                         SampledCounter(batchesProcessed, hasher[i].loaded) - 1,
                         params.everyN, params.debugBuild)
       IN /\ healthLog' = [healthLog EXCEPT ![i] = r.log]
          /\ result' = [result EXCEPT ![i] = r.result]
    /\ hasher' = [hasher EXCEPT ![i] = [h |-> hasher[i].h, loaded |-> hasher[i].loaded,
                                         sampled |-> batchesProcessed]]
    /\ pc' = [pc EXCEPT ![i] = "returned"]
    /\ UNCHANGED <<params, batchesProcessed, entry, snap, firstRun, ru>>

ConcurrentNext ==
    \E i \in DOMAIN pc :
       InvocationHash(i) \/ InvocationLoad(i) \/ InvocationStore(i) \/ InvocationSample(i)

ConcurrentSpec == ConcurrentInit /\ [][ConcurrentNext]_vars

(***************************************************************************)
(* A chain of batches over one range of a collection: each batch is hashed *)
(* with ceilings and possibly a deadline, described to the secondary by    *)
(* its start, its lastKeySeen and its digest, verified there, and followed *)
(* by a batch that starts at its lastKeySeen.  firstRun holds the batches  *)
(* of the chain that are closed.                                           *)
(***************************************************************************)
\* The descriptor of a hashed batch: its range ends at the hasher's
\* lastKeySeen, and its md5 is the hasher's digest.
ChainedDescriptor(h) ==
    [wellFormed |-> TRUE, nss |-> UserNss, batchId |-> "none",
     logBatchToHealthLog |-> "none",
     parameters |-> h.parameters,
     md5 |-> total(h),
     batchStart |-> <<IdObject(h.start)>>,
     batchEnd |-> <<IdObject(h.lastKeySeen)>>,
     minKey |-> MinKey, maxKey |-> MaxKey]

ChainInit ==
    /\ ru = [FreshRecoveryUnit EXCEPT !.dataCorruptionMode = "kLogAndContinue",
                                      !.snapshotOpen = TRUE]
    /\ params = [everyN |-> 1, debugBuild |-> FALSE, skipParam |-> FALSE,
                 maxConsecutive |-> MaxConsecutive]
    /\ batchesProcessed = 0
    /\ entry = NoEntry
    /\ pc = "hashing"
    /\ healthLog = <<>>
    /\ result = "none"
    /\ firstRun = [status |-> "chain", batches |-> <<>>]
    /\ \E parameters \in CollectionModes \ {"none"} :
          /\ snap \in CollectionSnaps(DocLists, parameters)
          /\ \E maxCount \in 1..MaxCeiling, maxBytes \in 1..MaxCeiling :
                hasher = DbCheckHasher(snap, MinKey, MaxKey, parameters, FALSE,
                                       maxCount, maxBytes)

\* dbCheckBatchOnSecondary for the descriptor of the batch just hashed, over
\* the same data, from the acquisition to the return: 'entry' keeps the
\* descriptor, the secondary's hasher and what the secondary logged.
VerifyChainedBatch ==
    /\ pc = "hashing"
    /\ hasher.status = "OK"
    /\ LET o == ChainedDescriptor(hasher)
           begun == BatchBegin(o, snap)
           hashed == HashWholeRange(begun.hasher, snap)
           ended == BatchEnd(o, snap, hashed, batchesProcessed, params.everyN,
                             params.debugBuild)
       IN /\ entry' = [type |-> "batch", mode |-> "kSecondary", o |-> o,
                       hasher |-> hashed,
                       log |-> ended.log]
          /\ batchesProcessed' = ended.counter
          /\ result' = ended.result
    /\ pc' = "verified"
    /\ UNCHANGED <<params, snap, hasher, healthLog, firstRun, ru>>

\* The batch is closed, and unless its lastKeySeen is the end of the range
\* the next batch is started there with the same ceilings.
StartNextBatch ==
    /\ pc = "verified"
    /\ firstRun' = [firstRun EXCEPT !.batches =
                       Append(@, [hasher |-> hasher, log |-> healthLog,
                                  secondary |-> entry.hasher])]
    /\ entry' = NoEntry
    /\ result' = "none"
    /\ healthLog' = <<>>
    /\ IF hasher.lastKeySeen = hasher.maxKey
       THEN pc' = "done" /\ hasher' = NoHasher
       ELSE /\ pc' = "hashing"
            /\ hasher' = DbCheckHasher(snap, hasher.lastKeySeen, hasher.maxKey,
                                       hasher.parameters, FALSE, hasher.maxCount,
                                       hasher.maxBytes)
    /\ UNCHANGED <<params, batchesProcessed, snap, ru>>

ChainNext == HashCollectionStep \/ VerifyChainedBatch \/ StartNextBatch

ChainSpec == ChainInit /\ [][ChainNext]_vars

\* The step of VerifyChainedBatch, told by the positions it leads from and to.
BatchVerified == pc = "hashing" /\ hasher.status = "OK" /\ pc' = "verified"

\* The threads of the chain keep running: a hashing loop that can take its
\* next iteration takes it, a hashed batch is verified, and a verified batch
\* is closed and followed by the next.
FairChainSpec ==
    /\ ChainSpec
    /\ WF_vars(HashCollectionStep)
    /\ WF_pc(BatchVerified)
    /\ WF_vars(StartNextBatch)

(***************************************************************************)
(* One run to its end: a hasher with ceilings and a deadline, as the       *)
(* primary runs it, or one call of dbCheckBatchOnSecondary, under the      *)
(* fairness of a thread that keeps running.                                *)
(***************************************************************************)
\* A batch entry for which dbCheckOplogCommand calls dbCheckBatchOnSecondary.
VerifiedEntries ==
    {[type |-> "batch", mode |-> "kSecondary", o |-> o] :
        o \in {d \in BatchDescriptors :
                  d.nss = UserNss /\ d.batchId = "none" /\ d.logBatchToHealthLog = "none"}}

\* A hasher run on its own, with ceilings and a deadline, over the documents
\* of a collection or over the keys of an index; or a call of
\* dbCheckBatchOnSecondary, for a descriptor of any mode.
RunInit ==
    \/ HasherInit /\ ~HasMissingKeysCheck(hasher.parameters)
    \/ /\ ru = FreshRecoveryUnit
       /\ params = [everyN |-> 1, debugBuild |-> FALSE, skipParam |-> FALSE,
                    maxConsecutive |-> MaxConsecutive]
       /\ batchesProcessed = 0
       /\ entry \in VerifiedEntries
       /\ pc = "verify"
       /\ snap = NoSnap
       /\ hasher = NoHasher
       /\ healthLog = dbCheckOplogCommand(entry.type, entry.o, entry.mode, params.skipParam).log
       /\ result = dbCheckOplogCommand(entry.type, entry.o, entry.mode, params.skipParam).result
       /\ firstRun = NoRun

RunNext == VerifierBegin \/ HashCollectionStep \/ HashIndexStep \/ VerifierEnd

RunSpec == RunInit /\ [][RunNext]_vars

\* dbCheckBatchOnSecondary goes on from its start, and from the end of hashing.
VerifierBegun == pc = "verify" /\ pc' \in {"hashing", "returned"}
VerifierEnded ==
    pc = "hashing" /\ entry # NoEntry /\ hasher.status # "running" /\ pc' = "returned"

\* The thread of the run is scheduled again and again.
FairRunSpec ==
    /\ RunSpec
    /\ WF_pc(VerifierBegun)
    /\ WF_vars(HashCollectionStep)
    /\ WF_vars(HashIndexStep)
    /\ WF_pc(VerifierEnded)

(***************************************************************************)
(* The counter at its width.  batchesProcessed is an unsigned int of 32    *)
(* bits, held here as two halves of 16 bits; the batches compared are the  *)
(* ones that take it from just below its largest value to just above 0.    *)
(***************************************************************************)
\* 2^16: an unsigned int is hi * UIntHalf + lo with both halves below it.
UIntHalf == 65536

\* Variant: the counter stays at its largest value.
UIntIncrement_saturating(c) ==
    IF c.lo + 1 < UIntHalf THEN [hi |-> c.hi, lo |-> c.lo + 1]
    ELSE IF c.hi + 1 < UIntHalf THEN [hi |-> c.hi + 1, lo |-> 0]
    ELSE c

\* batchesProcessed++ on an unsigned int: the largest value is followed by 0.
UIntIncrement(c) ==
    IF c.lo + 1 < UIntHalf THEN [hi |-> c.hi, lo |-> c.lo + 1]
    ELSE IF c.hi + 1 < UIntHalf THEN [hi |-> c.hi + 1, lo |-> 0]
    ELSE [hi |-> 0, lo |-> 0]

\* batchesProcessed % n on an unsigned int.
UIntMod(c, n) == (((c.hi % n) * (UIntHalf % n)) + (c.lo % n)) % n

\* The entry of a batch whose digests match.
ConsistentBatchEntry ==
    dbCheckBatchEntry("none", "none", UserNss, 0, 0, digestToString(md5_finish(md5_init_state)),
                      digestToString(md5_finish(md5_init_state)), MinKey, MaxKey, 0,
                      [capped |-> FALSE])

\* The counter is at most 2 * MaxBatches increments below 0, in an optimized
\* build with dbCheckHealthLogEveryNBatches from 1 to MaxEveryN + 1.  firstRun
\* keeps the history of the run: the low half the counter started with, the
\* number of batches compared, whether a batch entry was logged and how many
\* batches were compared since, and the distances between two batches logged one
\* after the other, with whether the later one took the counter to 0.
WrapInit ==
    /\ ru = FreshRecoveryUnit
    /\ params \in [everyN : 1..(MaxEveryN + 1), debugBuild : {FALSE}, skipParam : {FALSE},
                   maxConsecutive : {MaxConsecutive}]
    /\ \E lo \in (UIntHalf - 2 * MaxBatches)..(UIntHalf - 1) :
          /\ batchesProcessed = [hi |-> UIntHalf - 1, lo |-> lo]
          /\ firstRun = [status |-> "wrap", start |-> lo, compared |-> 0, logged |-> FALSE,
                         since |-> 0, gaps |-> {}]
    /\ entry = NoEntry
    /\ pc = "comparing"
    /\ snap = NoSnap
    /\ hasher = NoHasher
    /\ healthLog = <<>>
    /\ result = "none"

\* A batch whose digests match is compared, by a descriptor without
\* logBatchToHealthLog: the counter is incremented and the entry is logged if
\* the counter is a multiple of dbCheckHealthLogEveryNBatches.
CompareBatchAtWidth ==
    /\ pc = "comparing"
    /\ ~(batchesProcessed.hi = 0 /\ batchesProcessed.lo >= 2 * MaxBatches)
    /\ LET next == UIntIncrement(batchesProcessed)
           shouldLog == ShouldLogBatch(ConsistentBatchEntry.severity,
                                       UIntMod(next, params.everyN), params.everyN,
                                       params.debugBuild, "none")
       IN /\ batchesProcessed' = next
          /\ healthLog' = IF shouldLog THEN <<ConsistentBatchEntry>> ELSE <<>>
          /\ firstRun' = [firstRun EXCEPT
                             !.compared = @ + 1,
                             !.logged = @ \/ shouldLog,
                             !.since = IF shouldLog THEN 0 ELSE @ + 1,
                             !.gaps = IF shouldLog /\ firstRun.logged
                                      THEN @ \cup {[len |-> firstRun.since + 1,
                                                    toZero |-> next = [hi |-> 0, lo |-> 0]]}
                                      ELSE @]
    /\ result' = "OK"
    /\ UNCHANGED <<params, entry, pc, snap, hasher, ru>>

WrapNext == CompareBatchAtWidth

WrapSpec == WrapInit /\ [][WrapNext]_vars

(***************************************************************************)
(* What a finished operation shows.                                        *)
(***************************************************************************)
IsBatchResult(e) == e.msg \in {"dbCheck batch consistent", "dbCheck batch inconsistent"}

\* The batch-result entries the operation wrote.
BatchResults == SelectSeq(healthLog, IsBatchResult)

\* dbCheckBatchOnSecondary was called and has returned.
VerifierReturned == pc = "returned" /\ snap # NoSnap

\* The returned verification reached the comparison of the digests.
Compared == VerifierReturned /\ hasher # NoHasher /\ hasher.status = "OK"

DigestsMatch == entry.o.md5 = total(hasher)

\* The error raised inside the returned verification, "none" if none was.
RaisedError ==
    IF ~snap.acquired THEN snap.error
    ELSE IF snap.exists /\ hasher = NoHasher THEN "IndexNotFound"
    ELSE IF hasher # NoHasher /\ hasher.status \notin {"OK", "running"} THEN hasher.status
    ELSE "none"

ClusterErrors == SelectSeq(healthLog, LAMBDA e : e.severity = "Error" /\ e.scope = "Cluster")

(***************************************************************************)
(* Claims about the batch verification and the dispatcher (Spec).          *)
(***************************************************************************)
\* C1: dbCheckBatchOnSecondary returns Status::OK on every path: whenever a
\* verification has returned, whatever it found or raised, its status is OK.
C1_VerifierReturnsOK == VerifierReturned => result = "OK"

\* A verification whose hashing was interrupted has returned OK.
C1_Witness ==
    VerifierReturned /\ hasher # NoHasher /\ hasher.status = "Interrupted" /\ result = "OK"

\* C4: for a batch descriptor the verification is called exactly when the mode
\* is steady-state secondary and skipApplyingDbCheckBatchOnSecondary is off;
\* otherwise nothing is acquired or hashed, exactly one Warning entry with
\* batchStart, batchEnd (and batchId when present) is written, and OK returned.
C4_BatchDispatch ==
    (entry.type = "batch" /\ entry.o.wellFormed) =>
        IF entry.mode = "kSecondary" /\ ~params.skipParam
        THEN pc \in {"verify", "hashing"} \/ VerifierReturned
        ELSE /\ pc = "returned"
             /\ snap = NoSnap
             /\ hasher = NoHasher
             /\ result = "OK"
             /\ Len(healthLog) = 1
             /\ healthLog[1].severity = "Warning"
             /\ healthLog[1].data.batchStart = DecodeBatchStart(entry.o)
             /\ healthLog[1].data.batchEnd = DecodeBatchEnd(entry.o)
             /\ ("batchId" \in DOMAIN healthLog[1].data) = (entry.o.batchId # "none")
             /\ entry.o.batchId # "none" => healthLog[1].data.batchId = entry.o.batchId

\* A batch with a batchId was skipped as a secondary because the parameter is on.
C4_Witness ==
    /\ entry.type = "batch" /\ entry.o.wellFormed
    /\ entry.mode = "kSecondary" /\ params.skipParam
    /\ entry.o.batchId = "uuid"
    /\ pc = "returned" /\ Len(healthLog) = 1

\* C5: dbCheckOplogCommand never propagates an error: for every oplog entry,
\* also one whose type or descriptor does not parse, it returns success.
C5_NeverPropagates == pc = "returned" => result = "OK"

\* C6: an error raised inside a verification yields exactly one Error entry of
\* Cluster scope, which carries the error and the descriptor, and no
\* batch-result entry.
C6_ErrorLogged ==
    (VerifierReturned /\ RaisedError # "none") =>
        /\ Len(ClusterErrors) = 1
        /\ ClusterErrors[1].data.error = RaisedError
        /\ ClusterErrors[1].data.context = entry.o
        /\ BatchResults = <<>>

\* A document without _id made the hashing fail, and the error was logged.
C6_Witness ==
    /\ VerifierReturned /\ RaisedError = "NoSuchKey"
    /\ Len(ClusterErrors) = 1

\* C7: a batch result that is not Info is written whatever the counter, the
\* build kind and the descriptor's logBatchToHealthLog.
C7_NonInfoLogged ==
    (Compared /\ ~DigestsMatch) =>
        /\ Len(BatchResults) = 1
        /\ BatchResults[1].severity \in {"Warning", "Error"}

\* A mismatch is logged in an optimized build, off the sampling period, with
\* logBatchToHealthLog = false.
C7_Witness ==
    /\ Compared /\ ~DigestsMatch
    /\ entry.o.logBatchToHealthLog = "false"
    /\ ~params.debugBuild
    /\ batchesProcessed % params.everyN # 0
    /\ Len(BatchResults) = 1

\* C8: in an optimized build, a matching batch without logBatchToHealthLog is
\* logged exactly when it is an N-th compared batch,
\* N = dbCheckHealthLogEveryNBatches.
C8_InfoSampled ==
    (Compared /\ DigestsMatch /\ ~params.debugBuild
        /\ entry.o.logBatchToHealthLog = "none") =>
        /\ Len(BatchResults) <= 1
        /\ (Len(BatchResults) = 1) = (batchesProcessed % params.everyN = 0)
        /\ Len(BatchResults) = 1 => BatchResults[1].severity = "Info"

\* With N = 2 the fourth compared batch, a matching one, is logged.
C8_Witness ==
    /\ Compared /\ DigestsMatch /\ ~params.debugBuild
    /\ entry.o.logBatchToHealthLog = "none"
    /\ params.everyN = 2 /\ batchesProcessed = 4
    /\ Len(BatchResults) = 1

\* C9 as stated: with logBatchToHealthLog on the descriptor, a matching batch
\* is logged exactly when the flag is true, in both build kinds.
C9_FlagDecides ==
    (Compared /\ DigestsMatch /\ entry.o.logBatchToHealthLog # "none") =>
        (Len(BatchResults) = 1) = (entry.o.logBatchToHealthLog = "true")

\* C9, amended: with logBatchToHealthLog on the descriptor, a matching batch is
\* logged exactly when the flag is true or the build is a debug build; the
\* sampling counter plays no part.
C9_FlagDecidesOptimized ==
    (Compared /\ DigestsMatch /\ entry.o.logBatchToHealthLog # "none") =>
        (Len(BatchResults) = 1) =
            (entry.o.logBatchToHealthLog = "true" \/ params.debugBuild)

\* In an optimized build a matching batch on the sampling period is not
\* logged because its flag is false.
C9_Witness ==
    /\ Compared /\ DigestsMatch
    /\ entry.o.logBatchToHealthLog = "false"
    /\ ~params.debugBuild
    /\ batchesProcessed % params.everyN = 0
    /\ BatchResults = <<>>

(***************************************************************************)
(* Claims about dbCheckBatchEntry (BatchEntrySpec).                        *)
(***************************************************************************)
\* C2: the severity of a batch entry is Info when the expected and found digest
\* strings are equal, Warning when they differ and the namespace is the
\* pre-images, config image or change collection or the collection is capped,
\* and Error when they differ on any other collection; the digests are compared
\* as strings.
C2_Severity ==
    pc = "built" =>
        healthLog[1].severity =
            IF entry.expected = entry.found THEN "Info"
            ELSE IF entry.nss \in {PreImagesNss, ConfigImagesNss, ChangeCollectionNss}
                    \/ entry.capped
                 THEN "Warning"
                 ELSE "Error"

\* Digest strings that denote the same number but differ as strings give an
\* Error entry on an ordinary collection.
C2_Witness ==
    /\ pc = "built"
    /\ entry.nss = UserNss /\ ~entry.capped
    /\ entry.expected # entry.found
    /\ HexValue(entry.expected) = HexValue(entry.found)
    /\ healthLog[1].severity = "Error"

(***************************************************************************)
(* Claims about the hasher (HasherSpec).                                   *)
(***************************************************************************)
BothRunsOK == firstRun.status = "OK" /\ hasher.status = "OK"

SameOutcome ==
    /\ hasher.state = firstRun.hasher.state
    /\ total(hasher) = total(firstRun.hasher)

CollectionRun == hasher.status # "none" /\ ~hasher.hasIndexName

\* The item the cursor returned last.
LastItem == CollectionCursor(snap, hasher.start, hasher.maxKey)[hasher.exec]

\* The item returned last was hashed.
LastAccepted ==
    /\ hasher.exec >= 1
    /\ hasher.status \in {"running", "OK"}
    /\ hasher.lastKeySeen = LastItem.key

\* The count ceiling and the byte ceiling hold, but for a batch of one document.
CeilingsHold ==
    /\ hasher.countDocsSeen <= hasher.maxCount
    /\ hasher.bytesSeen <= hasher.maxBytes \/ hasher.countDocsSeen = 1

\* Number of index probes validateMissingKeys makes for an item.
Probes(item) ==
    Cardinality({i \in 1..Len(hasher.indexes) : IndexIsChecked(hasher.indexes[i], item)})
        * Cardinality(getKeys(item))

\* C10 as stated: docsSeen <= maxCount and bytesSeen <= maxBytes but for a
\* batch of one document, and a document is rejected exactly when accepting it
\* would make docsSeen exceed maxCount or bytesSeen exceed maxBytes.
C10_Ceilings ==
    CollectionRun =>
        /\ CeilingsHold
        /\ hasher.stoppedAt = "ceiling" =>
              \/ hasher.countDocsSeen + 1 > hasher.maxCount
              \/ hasher.bytesSeen + LastItem.size > hasher.maxBytes

\* C10, amended: docsSeen <= maxCount and bytesSeen <= maxBytes but for a batch
\* of one document; a document after the first is rejected exactly when
\* bytesSeen + its size > maxBytes or countSeen + 1 > maxCount, countSeen being
\* docsSeen + keysSeen (one per index probe).
C10_CeilingsOnCountSeen ==
    CollectionRun =>
        /\ CeilingsHold
        /\ hasher.stoppedAt = "ceiling" =>
              /\ countSeen(hasher) > 0
              /\ \/ countSeen(hasher) + 1 > hasher.maxCount
                 \/ hasher.bytesSeen + LastItem.size > hasher.maxBytes
        /\ LastAccepted =>
              \/ hasher.countDocsSeen = 1 /\ hasher.countKeysSeen = Probes(LastItem)
              \/ /\ hasher.bytesSeen <= hasher.maxBytes
                 /\ countSeen(hasher) - Probes(LastItem) <= hasher.maxCount

\* With the missing-keys check a second document was rejected on countSeen
\* although docsSeen + 1 <= maxCount.
C10_Witness ==
    /\ CollectionRun
    /\ hasher.stoppedAt = "ceiling"
    /\ hasher.countDocsSeen + 1 <= hasher.maxCount
    /\ hasher.bytesSeen + LastItem.size <= hasher.maxBytes
    /\ countSeen(hasher) + 1 > hasher.maxCount

\* The range holds a record that exists and has an _id.
Hashable(item) == item.kind \notin {"missing", "noid"}

RangeItems == CollectionCursor(snap, hasher.start, hasher.maxKey)

HasHashable == \E i \in 1..Len(RangeItems) : Hashable(RangeItems[i])

FirstHashable ==
    RangeItems[CHOOSE i \in 1..Len(RangeItems) :
                  /\ Hashable(RangeItems[i])
                  /\ \A j \in 1..(i - 1) : ~Hashable(RangeItems[j])]

FirstHashableHashed ==
    /\ hasher.countDocsSeen >= 1
    /\ hasher.state # <<>>
    /\ hasher.state[1] = RecordBytes(FirstHashable)

\* C11 as stated: when the range holds a record that exists and has an _id,
\* hashForCollectionCheck has hashed the first such record when it returns,
\* whatever maxBytes and maxCount are, so docsSeen >= 1.
C11_NeverEmpty ==
    (CollectionRun /\ hasher.status \in {"OK", "NoSuchKey"} /\ HasHashable)
        => FirstHashableHashed

\* C11, amended: when the range holds a record that exists and has an _id and
\* hashForCollectionCheck returns OK, it has hashed the first such record,
\* whatever maxBytes and maxCount are, so docsSeen >= 1.
C11_NeverEmptyOnOK ==
    (CollectionRun /\ hasher.status = "OK" /\ HasHashable) => FirstHashableHashed

\* The first document, larger than maxBytes, was hashed.
C11_Witness ==
    /\ CollectionRun /\ hasher.status = "OK" /\ HasHashable
    /\ FirstHashable.size > hasher.maxBytes
    /\ hasher.countDocsSeen = 1
    /\ hasher.bytesSeen > hasher.maxBytes

IndexRun == hasher.status # "none" /\ hasher.hasIndexName

\* The index entries from the start of the range to its end, inclusive.
RangeKeys ==
    SelectSeq(snap.ikeys, LAMBDA e : e.key >= hasher.start /\ e.key <= hasher.maxKey)

\* The md5 stream of the first n entries of the range.
KeyStream(n) == [i \in 1..n |-> KeyStringBytes(RangeKeys[i].key)]

\* C12 as stated: hashForExtraIndexKeysCheck accepts no key once keysSeen has
\* reached maxCount, but for keys identical to the one at the ceiling.
C12_IndexCeiling ==
    IndexRun =>
        \A i \in 1..hasher.countKeysSeen :
            i > hasher.maxCount => RangeKeys[i].key = RangeKeys[hasher.maxCount].key

\* Over the keys 1, 3, 3, 3, 4 with start 1 and end 3 the keys 1, 3, 3, 3 are
\* consumed.
RunOfThreeConsumed ==
    (snap = RunOfThreeSnap /\ hasher.status = "OK") =>
        /\ hasher.state = <<KeyStringBytes(1), KeyStringBytes(3), KeyStringBytes(3),
                            KeyStringBytes(3)>>
        /\ hasher.nConsecutiveIdenticalIndexKeysSeenAtEnd = 3

\* C12, amended: hashForExtraIndexKeysCheck tests neither maxCount nor
\* maxBytes: it folds every key from the start to the end of the range, and
\* stops before the cursor is exhausted only when the run of keys equal to the
\* range end has reached the ceiling of consecutive identical keys; over the
\* keys 1, 3, 3, 3, 4 with start 1 and end 3 it consumes 1, 3, 3, 3.
C12_IndexRangeOnly ==
    /\ RunOfThreeConsumed
    /\ (IndexRun /\ hasher.status = "OK") =>
          /\ hasher.countKeysSeen <= Len(RangeKeys)
          /\ hasher.state = KeyStream(hasher.countKeysSeen)
          /\ hasher.bytesSeen = hasher.countKeysSeen
          /\ \/ hasher.countKeysSeen = Len(RangeKeys)
             \/ /\ hasher.stoppedAt = "identicalKeys"
                /\ hasher.lastKeySeen = hasher.maxKey
                /\ hasher.nConsecutiveIdenticalIndexKeysSeenAtEnd >= params.maxConsecutive

\* A key different from the one at the ceiling was folded after keysSeen had
\* reached maxCount.
C12_Witness ==
    /\ IndexRun /\ hasher.status = "OK"
    /\ hasher.maxCount < hasher.countKeysSeen
    /\ RangeKeys[hasher.countKeysSeen].key # RangeKeys[hasher.maxCount].key

\* The positions of the range whose key equals the range end.
EndRun == {i \in 1..Len(RangeKeys) : RangeKeys[i].key = hasher.maxKey}

\* The folded keys that equal the range end.
EndRunFolded == {i \in 1..Len(hasher.state) : hasher.state[i] = KeyStringBytes(hasher.maxKey)}

\* C13: when the index holds r entries whose key equals the range end and the
\* ceiling of consecutive identical keys is c >= 1, hashForExtraIndexKeysCheck
\* folds min(r, c) of them, returns with
\* nConsecutiveIdenticalIndexKeysSeenAtEnd = min(r, c), and for r >= c stops
\* right after the c-th.
C13_DuplicateRun ==
    (IndexRun /\ hasher.status = "OK") =>
        LET r == Cardinality(EndRun)
            c == params.maxConsecutive
        IN /\ Cardinality(EndRunFolded) = Min(r, c)
           /\ hasher.nConsecutiveIdenticalIndexKeysSeenAtEnd = Min(r, c)
           /\ r >= c =>
                 /\ hasher.stoppedAt = "identicalKeys"
                 /\ hasher.countKeysSeen = Len(RangeKeys) - r + c
                 /\ hasher.exec = hasher.countKeysSeen

\* A run of two keys equal to the range end was cut after the first, the
\* ceiling being 1.
C13_Witness ==
    /\ IndexRun /\ hasher.status = "OK"
    /\ Cardinality(EndRun) = 2
    /\ params.maxConsecutive = 1
    /\ hasher.nConsecutiveIdenticalIndexKeysSeenAtEnd = 1
    /\ hasher.countKeysSeen < Len(RangeKeys)

\* An iteration of hashForCollectionCheck that is not interrupted takes from
\* the cursor a key whose record is not in the record store.
MissingRecordStep ==
    /\ CollectionRun
    /\ hasher.status = "running"
    /\ hasher.exec < Len(RangeItems)
    /\ RangeItems[hasher.exec + 1].kind = "missing"
    /\ hasher'.exec = hasher.exec + 1
    /\ hasher'.status # "Interrupted"

\* C14: a key of the _id index whose record is absent from the record store
\* gives exactly one Error entry of Document scope, leaves the digest, docsSeen,
\* bytesSeen and lastKeySeen as they were, and the scan goes on without an
\* error.
C14_MissingRecordSkipped ==
    [][MissingRecordStep =>
          /\ Len(healthLog') = Len(healthLog) + 1
          /\ SubSeq(healthLog', 1, Len(healthLog)) = healthLog
          /\ healthLog'[Len(healthLog')].severity = "Error"
          /\ healthLog'[Len(healthLog')].scope = "Document"
          /\ healthLog'[Len(healthLog')].data.error = "KeyNotFound"
          /\ hasher'.state = hasher.state
          /\ hasher'.countDocsSeen = hasher.countDocsSeen
          /\ hasher'.bytesSeen = hasher.bytesSeen
          /\ hasher'.lastKeySeen = hasher.lastKeySeen
          /\ hasher'.status = "running"]_vars

\* After a key without record the next document was hashed and the scan
\* reached the end: one entry was written, one document counted.
C14_Witness ==
    /\ CollectionRun /\ hasher.status = "OK" /\ hasher.stoppedAt = "eof"
    /\ Len(RangeItems) = 2
    /\ RangeItems[1].kind = "missing" /\ RangeItems[2].kind = "ok"
    /\ hasher.countDocsSeen = 1
    /\ hasher.state = <<RecordBytes(RangeItems[2])>>
    /\ Len(healthLog) = 1
    /\ healthLog[1].severity = "Error" /\ healthLog[1].scope = "Document"

\* The records of the range that the record store holds.
FoundRecords == SelectSeq(RangeItems, LAMBDA it : it.kind # "missing")

RECURSIVE SizeSum(_)
SizeSum(items) == IF items = <<>> THEN 0 ELSE items[1].size + SizeSum(Tail(items))

\* The bytes of a record are in the md5 stream.
Folded(item) == \E i \in 1..Len(hasher.state) : hasher.state[i] = RecordBytes(item)

\* C15 as stated: a document whose bytes fail the validation is reported and
\* skipped: its bytes are not folded into the digest (nor is it counted).
C15_InvalidSkipped ==
    (CollectionRun /\ HasMissingKeysCheck(hasher.parameters)) =>
        \A i \in 1..Len(RangeItems) :
            validateBSON(RangeItems[i]) # "OK" => ~Folded(RangeItems[i])

\* C15, amended: a document whose bytes fail the validation is not skipped: a
\* scan that reaches the end of the range has folded the bytes of every record
\* it found, in order, and counted each in docsSeen and bytesSeen.
C15_InvalidHashed ==
    (CollectionRun /\ hasher.status = "OK" /\ hasher.stoppedAt = "eof") =>
        /\ hasher.state = [i \in 1..Len(FoundRecords) |-> RecordBytes(FoundRecords[i])]
        /\ hasher.countDocsSeen = Len(FoundRecords)
        /\ hasher.bytesSeen = SizeSum(FoundRecords)

\* A document that is not well-formed BSON was reported and hashed.
C15_Witness ==
    /\ CollectionRun /\ hasher.status = "OK" /\ hasher.stoppedAt = "eof"
    /\ HasMissingKeysCheck(hasher.parameters)
    /\ Len(RangeItems) = 1 /\ RangeItems[1].kind = "malformed"
    /\ Len(healthLog) = 1 /\ healthLog[1].data.error = "InvalidBSON"
    /\ hasher.state = <<RecordBytes(RangeItems[1])>>
    /\ hasher.countDocsSeen = 1

\* The entries written for records that failed the validation.
ValidationLog == SelectSeq(healthLog, LAMBDA e : e.msg = "Document is not well-formed BSON")

\* The records taken from the cursor so far whose bytes fail the validation.
InvalidSeen ==
    SelectSeq(SubSeq(RangeItems, 1, hasher.exec), LAMBDA it : validateBSON(it) # "OK")

\* C16 as stated: in DataConsistency mode as in
\* DataConsistencyAndMissingIndexKeys mode a malformed document of the range
\* gives a health log entry, and the scan goes on to EOF or a ceiling.
C16_InvalidReported ==
    (CollectionRun /\ hasher.status = "OK" /\ hasher.stoppedAt = "eof") =>
        Len(ValidationLog) = Len(InvalidSeen)

\* C16, amended: a malformed document never ends the scan, in either mode; it
\* gives a health log entry (Error, or Warning for NonConformantBSON) in
\* DataConsistencyAndMissingIndexKeys mode only, none in DataConsistency mode.
C16_InvalidReportedWithMissingKeysCheck ==
    (CollectionRun /\ hasher.status # "Interrupted") =>
        /\ hasher.status \in {"running", "OK", "NoSuchKey"}
        /\ hasher.status = "NoSuchKey" => RangeItems[hasher.exec].kind = "noid"
        /\ hasher.status = "OK" => hasher.stoppedAt \in {"eof", "ceiling", "deadline"}
        /\ IF HasMissingKeysCheck(hasher.parameters)
           THEN /\ Len(ValidationLog) = Len(InvalidSeen)
                /\ \A i \in 1..Len(InvalidSeen) :
                      /\ ValidationLog[i].data.context.recordID = InvalidSeen[i].key
                      /\ ValidationLog[i].severity =
                            IF InvalidSeen[i].kind = "nonconformant" THEN "Warning"
                            ELSE "Error"
           ELSE ValidationLog = <<>>

\* In DataConsistency mode a scan over a malformed document reached the end
\* of the range, hashed the document and wrote nothing.
C16_Witness ==
    /\ CollectionRun /\ hasher.status = "OK" /\ hasher.stoppedAt = "eof"
    /\ hasher.parameters = "dataConsistency"
    /\ Len(InvalidSeen) = 1 /\ InvalidSeen[1].kind = "malformed"
    /\ Folded(InvalidSeen[1])
    /\ healthLog = <<>>

\* The entries written for keys whose record is missing.
MissingRecordLog ==
    SelectSeq(healthLog, LAMBDA e : e.msg = "Error fetching record from record id")

\* The entries written for documents with missing index keys.
MissingKeysLog == SelectSeq(healthLog, LAMBDA e : e.msg = "Document has missing index keys")

\* The keys taken from the cursor so far whose record is missing.
MissingSeen == SelectSeq(SubSeq(RangeItems, 1, hasher.exec), LAMBDA it : it.kind = "missing")

\* The hashed documents for which a probe of a checked index finds no entry
\* of the document.
LackingKeysHashed ==
    SelectSeq(SubSeq(RangeItems, 1, hasher.exec),
              LAMBDA it : /\ Folded(it)
                          /\ \E i \in 1..Len(hasher.indexes) :
                                /\ IndexIsChecked(hasher.indexes[i], it)
                                /\ \E key \in getKeys(it) :
                                      IsMissingKey(seekForKeyString(snap, i, key), key,
                                                   it.key))

\* C17 as stated: only an interruption ends hashForCollectionCheck with an
\* error; every other anomaly of an item, a document without _id included, is
\* logged and the scan goes on.
C17_OnlyInterruptAborts ==
    CollectionRun => hasher.status \in {"running", "OK", "Interrupted"}

\* C17, amended: besides an interruption, a document without _id ends
\* hashForCollectionCheck, with NoSuchKey and no entry of its own; a missing
\* record and missing index keys are logged and the scan goes on, returning OK
\* at EOF, a ceiling or the deadline.
C17_InterruptOrMissingIdAborts ==
    CollectionRun =>
        /\ hasher.status \in {"running", "OK", "Interrupted", "NoSuchKey"}
        /\ \A i \in 1..hasher.exec :
              RangeItems[i].kind = "noid" =>
                  /\ i = hasher.exec
                  /\ hasher.status \in {"NoSuchKey", "Interrupted"}
        /\ hasher.status = "NoSuchKey" => RangeItems[hasher.exec].kind = "noid"
        /\ hasher.status = "OK" => hasher.stoppedAt \in {"eof", "ceiling", "deadline"}
        /\ hasher.status # "Interrupted" =>
              /\ Len(MissingRecordLog) = Len(MissingSeen)
              /\ Len(MissingKeysLog) = Len(LackingKeysHashed)
              /\ Len(healthLog)
                    = Len(MissingRecordLog) + Len(MissingKeysLog) + Len(ValidationLog)

\* After a key without record, which was logged, a document without _id ended
\* the hashing with NoSuchKey.
C17_Witness ==
    /\ CollectionRun /\ hasher.status = "NoSuchKey"
    /\ hasher.exec = 2
    /\ RangeItems[1].kind = "missing" /\ RangeItems[2].kind = "noid"
    /\ Len(healthLog) = 1 /\ Len(MissingRecordLog) = 1

\* The md5 stream of the records found among the first n items of the range.
RecordStream(n) ==
    LET found == SelectSeq(SubSeq(RangeItems, 1, n), LAMBDA it : it.kind # "missing")
    IN [i \in 1..Len(found) |-> RecordBytes(found[i])]

\* C18: the interruption is observed at an item's check point, before the item
\* is processed: the item and the later ones are not folded, the hashing ends
\* with the interruption error, and the batch verification writes one Error
\* entry for it and returns OK.
C18_InterruptBeforeItem ==
    (hasher # NoHasher /\ hasher.status = "Interrupted") =>
        /\ hasher.exec >= 1
        /\ hasher.state = IF hasher.hasIndexName THEN KeyStream(hasher.exec - 1)
                          ELSE RecordStream(hasher.exec - 1)
        /\ VerifierReturned =>
              /\ result = "OK"
              /\ Len(ClusterErrors) = 1
              /\ ClusterErrors[1].data.error = "Interrupted"
              /\ BatchResults = <<>>

\* A batch verification was interrupted at the second index key: the first key
\* is folded, the second is not, one Error entry is written.
C18_Witness ==
    /\ VerifierReturned /\ hasher # NoHasher /\ hasher.status = "Interrupted"
    /\ hasher.hasIndexName
    /\ hasher.exec = 2 /\ Len(hasher.state) = 1
    /\ Len(ClusterErrors) = 1 /\ result = "OK"

(***************************************************************************)
(* Claims about DbCheckAcquisition.                                        *)
(***************************************************************************)
\* The two modes of the recovery unit are those of 'r'.
ModesAsIn(r) ==
    /\ ru.prepareConflictBehavior = r.prepareConflictBehavior
    /\ ru.dataCorruptionMode = r.dataCorruptionMode

\* C19: while a DbCheckAcquisition is alive the prepare conflict behavior is
\* the requested one and the data corruption mode is log-and-continue; once it
\* is destroyed, by a return or by an exception thrown inside its scope, the
\* snapshot is abandoned and both modes are what they were before the
\* construction, whatever they were and however many acquisitions came before.
C19_ModesRestored ==
    /\ pc = "inScope" =>
          /\ ru.prepareConflictBehavior = entry.requested
          /\ ru.dataCorruptionMode = "kLogAndContinue"
          /\ ru.snapshotOpen
    /\ pc = "left" =>
          /\ ~ru.snapshotOpen
          /\ ModesAsIn(entry.before)

\* The second acquisition of an operation, made with other modes than the
\* operation had, was left by an exception and the modes are back.
C19_Witness ==
    /\ pc = "left" /\ result = "Interrupted"
    /\ entry.n = 2
    /\ entry.before.prepareConflictBehavior = "kEnforce"
    /\ entry.before.dataCorruptionMode = "kThrow"
    /\ entry.requested = "kIgnoreConflictsAllowWrites"
    /\ ModesAsIn(entry.before)

\* C20: when the collection acquisition raises an error inside the constructor
\* of DbCheckAcquisition, after the two modes were overridden, the modes are
\* back at their prior values once the error has reached the handler of
\* dbCheckBatchOnSecondary.
C20_ModesRestoredAfterFailedConstruction ==
    (VerifierReturned /\ ~snap.acquired) =>
        /\ ru.prepareConflictBehavior = snap.prevPrepareConflictBehavior
        /\ ru.dataCorruptionMode = snap.prevDataCorruptionMode

(***************************************************************************)
(* Claims about the early returns of the batch verification (Spec).        *)
(***************************************************************************)
\* The returned verification found that the collection does not exist.
FoundCollectionGone == VerifierReturned /\ snap.acquired /\ ~snap.exists

\* C21: when the collection does not exist at the read timestamp, the batch
\* verification writes exactly one entry, of Info severity, telling that the
\* collection no longer exists, makes no hasher, writes no batch-result entry
\* and returns OK.
C21_CollectionGone ==
    FoundCollectionGone =>
        /\ Len(healthLog) = 1
        /\ healthLog[1].severity = "Info"
        /\ healthLog[1].data.info = "Collection under dbCheck no longer exists"
        /\ healthLog[1].dbCheckParameters = entry.o.parameters
        /\ hasher = NoHasher
        /\ BatchResults = <<>>
        /\ result = "OK"

\* A verification in the missing-keys mode found the collection gone.
C21_Witness ==
    /\ FoundCollectionGone
    /\ entry.o.parameters = "dataConsistencyAndMissingIndexKeysCheck"
    /\ Len(healthLog) = 1 /\ healthLog[1].severity = "Info"
    /\ result = "OK"

\* The returned verification did not find the index the descriptor names.
FoundNoNamedIndex ==
    /\ VerifierReturned /\ snap.acquired /\ snap.exists
    /\ entry.o.parameters = "extraIndexKeysCheck"
    /\ ~snap.namedIndex

\* C22: in the extra-index-keys mode, when the named index cannot be found the
\* batch verification writes exactly one entry, of Error severity and Index
\* scope, hashes nothing, writes no batch-result entry and returns OK.
C22_IndexNotFound ==
    FoundNoNamedIndex =>
        /\ Len(healthLog) = 1
        /\ healthLog[1].severity = "Error"
        /\ healthLog[1].scope = "Index"
        /\ healthLog[1].data.info = "cannot find index"
        /\ hasher.status = "running" /\ hasher.exec = 0
        /\ hasher.state = md5_init_state /\ countSeen(hasher) = 0
        /\ BatchResults = <<>>
        /\ result = "OK"

\* A verification returned OK after it did not find the named index.
C22_Witness ==
    /\ FoundNoNamedIndex
    /\ Len(healthLog) = 1 /\ healthLog[1].scope = "Index"
    /\ hasher # NoHasher /\ hasher.state = md5_init_state
    /\ result = "OK"

(***************************************************************************)
(* Claims about the missing-keys check (ValidatorSpec).                    *)
(***************************************************************************)
ValidatorRun == pc = "validating"

\* The index is supported and, if partial, its filter matches the document.
Applicable(index, item) ==
    /\ index.kind \in {"btree", "hashed"}
    /\ ~index.partial \/ item.key \in index.filter

\* The index at position i holds the entry of the document for the key.
HoldsEntry(i, key) == <<i, key>> \notin snap.absent

\* The missing-index-keys entries that name the document.
EntriesNaming(item) ==
    SelectSeq(MissingKeysLog, LAMBDA e : e.data.context.recordID = item.key)

\* A missing-index-keys entry naming the document lists the key for index i.
Reported(item, i, key) ==
    \E n \in 1..Len(EntriesNaming(item)) :
       LET report == EntriesNaming(item)[n].data.context.missingIndexKeys
       IN \E m \in 1..Len(report) :
             report[m] = [indexName |-> i, keyString |-> key, expectedRecordId |-> item.key]

\* The keys the document expects in index i that the index does not hold.
Misses(item, i) ==
    IF Applicable(snap.indexes[i], item)
    THEN {key \in getKeys(item) : ~HoldsEntry(i, key)}
    ELSE {}

\* C23: completeness of validateMissingKeys.  For every validated document and
\* every supported, applicable index, each expected key for which the index
\* holds no entry with that key and the document's record id is in the
\* missing-keys report logged for the document, also when the document
\* expects several keys in the index and only some are absent.
C23_Completeness ==
    ValidatorRun =>
        \A d \in 1..hasher.exec : \A i \in 1..Len(snap.indexes) :
           \A key \in Misses(RangeItems[d], i) : Reported(RangeItems[d], i, key)

\* The document validated last holds every expected key in every supported,
\* applicable index.
NoMisses(item) == \A i \in 1..Len(snap.indexes) : Misses(item, i) = {}

\* C24: soundness of validateMissingKeys.  A document all of whose expected
\* keys are present, with its record id, in every supported, applicable index
\* gets an empty report and no missing-index-keys entry; misses never end the
\* hashing with an error: an entry is logged for the document exactly when its
\* report is not empty.
C24_Soundness ==
    ValidatorRun =>
        /\ hasher.status \in {"running", "OK"}
        /\ \A d \in 1..hasher.exec :
              NoMisses(RangeItems[d]) => EntriesNaming(RangeItems[d]) = <<>>
        /\ hasher.exec >= 1 =>
              /\ NoMisses(RangeItems[hasher.exec]) => hasher.missingIndexKeys = <<>>
              /\ hasher.missingIndexKeys # <<>>
                    <=> EntriesNaming(RangeItems[hasher.exec]) # <<>>

\* After a document whose key is absent, which was logged, a document with two
\* keys, both present, left no entry and an empty report, and the hashing
\* went on to EOF.
C24_Witness ==
    /\ ValidatorRun /\ hasher.status = "OK" /\ hasher.exec = 2
    /\ Len(snap.indexes) = 1 /\ snap.indexes[1].kind = "btree" /\ ~snap.indexes[1].partial
    /\ ~NoMisses(RangeItems[1]) /\ Len(EntriesNaming(RangeItems[1])) = 1
    /\ RangeItems[2].size = 2 /\ NoMisses(RangeItems[2])
    /\ EntriesNaming(RangeItems[2]) = <<>>
    /\ hasher.missingIndexKeys = <<>>
    /\ hasher.countKeysSeen = 3
    /\ Len(hasher.state) = 2

\* The probes made for the documents validated so far: <<document, index, key>>.
ProbesMade ==
    {p \in (1..hasher.exec) \X (1..Len(snap.indexes)) \X (1..(MaxDocs * MaxDocSize)) :
        /\ Applicable(snap.indexes[p[2]], RangeItems[p[1]])
        /\ p[3] \in getKeys(RangeItems[p[1]])}

\* C25: an index that is partial with a filter the document does not match,
\* or whose kind is neither btree nor hashed, is passed over: it is not probed
\* (keysSeen counts the probes of the other indexes only) and nothing is
\* reported for it; the _id index is never among the validated indexes.
C25_IndexesSkipped ==
    ValidatorRun =>
        /\ \A i \in 1..Len(hasher.indexes) : ~hasher.indexes[i].isIdIndex
        /\ hasher.indexes = snap.indexes
        /\ hasher.countKeysSeen = Cardinality(ProbesMade)
        /\ \A n \in 1..Len(MissingKeysLog) :
              LET report == MissingKeysLog[n].data.context.missingIndexKeys
              IN \A m \in 1..Len(report) :
                    \E d \in 1..hasher.exec :
                       /\ RangeItems[d].key = report[m].expectedRecordId
                       /\ Applicable(snap.indexes[report[m].indexName], RangeItems[d])

\* A document lacking its key in a text index and in a partial index whose
\* filter it does not match was hashed without a probe and without an entry,
\* in a collection that has an _id index.
C25_Witness ==
    /\ ValidatorRun /\ hasher.exec = 1 /\ hasher.countDocsSeen = 1
    /\ snap.idIndex
    /\ Len(snap.indexes) = 2
    /\ snap.indexes[1].kind = "text" /\ snap.indexes[2].partial
    /\ <<1, 1>> \in snap.absent /\ <<2, 1>> \in snap.absent
    /\ hasher.countKeysSeen = 0
    /\ healthLog = <<>>

\* C26: the report is per document.  Each missing-index-keys entry lists only
\* missing keys of the document it names, and a document with at least one
\* miss gets exactly one such Error entry, which names every index with a
\* miss.
C26_ReportPerDocument ==
    ValidatorRun =>
        /\ \A n \in 1..Len(MissingKeysLog) :
              LET e == MissingKeysLog[n]
                  report == e.data.context.missingIndexKeys
              IN /\ e.severity = "Error"
                 /\ \A m \in 1..Len(report) :
                       /\ report[m].expectedRecordId = e.data.context.recordID
                       /\ \E d \in 1..hasher.exec :
                             /\ RangeItems[d].key = e.data.context.recordID
                             /\ report[m].keyString \in Misses(RangeItems[d], report[m].indexName)
        /\ \A d \in 1..hasher.exec :
              ~NoMisses(RangeItems[d]) =>
                  /\ Len(EntriesNaming(RangeItems[d])) = 1
                  /\ \A i \in 1..Len(snap.indexes) :
                        Misses(RangeItems[d], i) # {} =>
                            \E key \in Misses(RangeItems[d], i) :
                               Reported(RangeItems[d], i, key)

(***************************************************************************)
(* Claims about an index range without keys (HasherSpec).                  *)
(***************************************************************************)
\* hashForExtraIndexKeysCheck has returned OK without having seen a key.
NoKeySeen == IndexRun /\ hasher.status = "OK" /\ hasher.countKeysSeen = 0

\* C27 as stated: after hashForExtraIndexKeysCheck saw no key, lastKeySeen is
\* the maximal sentinel key, which compares greater than or equal to every
\* key of the index, and keysSeen and the run of identical keys are 0.
C27_NoKeyMaximalSentinel ==
    NoKeySeen =>
        /\ hasher.lastKeySeen = MaxKey
        /\ \A i \in 1..Len(snap.ikeys) : snap.ikeys[i].key <= hasher.lastKeySeen
        /\ hasher.nConsecutiveIdenticalIndexKeysSeenAtEnd = 0

\* C27, amended: after hashForExtraIndexKeysCheck saw no key, lastKeySeen is
\* the end of the hasher's range (the 'end' it was constructed with), which
\* is the maximal sentinel only if the range ends there; the range holds no
\* key of the index, nothing was folded, and keysSeen and the run of identical
\* keys are 0.  A hasher that saw a key has the last key it folded instead.
C27_NoKeyRangeEnd ==
    /\ NoKeySeen =>
          /\ hasher.lastKeySeen = hasher.maxKey
          /\ RangeKeys = <<>>
          /\ hasher.state = md5_init_state
          /\ hasher.nConsecutiveIdenticalIndexKeysSeenAtEnd = 0
    /\ IndexRun /\ hasher.status = "OK" /\ hasher.countKeysSeen > 0 =>
          hasher.lastKeySeen = RangeKeys[hasher.countKeysSeen].key

\* Over a range that ends at key 1 of an index whose keys are all larger, no
\* key was seen and lastKeySeen is 1, with larger keys in the index.
C27_Witness ==
    /\ NoKeySeen
    /\ hasher.maxKey = 1 /\ hasher.lastKeySeen = 1
    /\ Len(snap.ikeys) > 0 /\ snap.ikeys[1].key > 1

(***************************************************************************)
(* Claims about verifications running at the same time (ConcurrentSpec).   *)
(***************************************************************************)
\* What verification i logs when it is the only one: it finds the counter at
\* its initial value.
AloneLog(i) ==
    LET d == dbCheckOplogCommand("batch", entry[i].o, entry[i].mode, params.skipParam)
        r == BatchBegin(entry[i].o, entry[i].found)
    IN IF ~d.verify THEN d.log
       ELSE IF r.result # "none" THEN r.log
       ELSE BatchEnd(entry[i].o, entry[i].found, HashWholeRange(r.hasher, entry[i].found), 0,
                     params.everyN, params.debugBuild).log

\* The batch entry verification i logs if it logs one.
BatchEntryOf(i) ==
    LET r == BatchBegin(entry[i].o, entry[i].found)
    IN BatchEnd(entry[i].o, entry[i].found, HashWholeRange(r.hasher, entry[i].found), 0, 1,
                TRUE).log[1]

\* Verification i compares digests that match, in a build and for a
\* descriptor that leave the decision to log to the sampling.
SampledInfo(i) ==
    /\ dbCheckOplogCommand("batch", entry[i].o, entry[i].mode, params.skipParam).verify
    /\ BatchBegin(entry[i].o, entry[i].found).result = "none"
    /\ BatchEntryOf(i).severity = "Info"
    /\ ~params.debugBuild
    /\ entry[i].o.logBatchToHealthLog = "none"

\* C28 as stated: verifications that run at the same time share no mutable
\* state; in every interleaving each one logs the entries, in number and
\* content, that it logs when it runs alone.
C28_SameAsAlone ==
    \A i \in DOMAIN pc : pc[i] = "returned" => healthLog[i] = AloneLog(i)

\* C28, amended: the verifications share the counter batchesProcessed.  In
\* every interleaving a verification returns OK and logs what it logs alone,
\* but for an Info batch result left to the sampling: that entry, with the
\* same content, is logged exactly when the counter the verification reads
\* after its own increment is a multiple of dbCheckHealthLogEveryNBatches,
\* and the counter counts the increments of all verifications, less the
\* increments lost between a load and a store.
C28_SharedCounterOnly ==
    /\ batchesProcessed <= Cardinality({i \in DOMAIN pc : pc[i] \in {"stored", "returned"}})
    /\ \A i \in DOMAIN pc : pc[i] = "returned" =>
          /\ result[i] = "OK"
          /\ ~SampledInfo(i) => healthLog[i] = AloneLog(i)
          /\ SampledInfo(i) =>
                /\ hasher[i].sampled >= 1
                /\ healthLog[i] = IF hasher[i].sampled % params.everyN = 0
                                  THEN <<BatchEntryOf(i)>>
                                  ELSE <<>>

\* Two verifications with the same descriptor over the same collection have
\* returned, one having logged its Info batch result, the other not.
C28_Witness ==
    /\ DOMAIN pc = 1..2
    /\ pc[1] = "returned" /\ pc[2] = "returned"
    /\ entry[1] = entry[2]
    /\ SampledInfo(1)
    /\ healthLog[1] # healthLog[2]
    /\ healthLog[1] = AloneLog(1)

(***************************************************************************)
(* Claims about the start and the stop of a run (Spec).                    *)
(***************************************************************************)
\* dbCheckOplogCommand has returned from a start or stop it could parse.
StartStopApplied ==
    pc = "returned" /\ entry.type \in {"start", "stop"} /\ entry.o.wellFormed

\* C29: for a start or stop descriptor the dispatcher writes exactly one
\* entry, of Cluster scope, with the validation parameters of the run, and
\* returns OK; the entry is an Info entry exactly when the mode is
\* steady-state secondary and a Warning entry in every other mode, whatever
\* skipApplyingDbCheckBatchOnSecondary is.
C29_StartStop ==
    StartStopApplied =>
        /\ result = "OK"
        /\ Len(healthLog) = 1
        /\ healthLog[1].scope = "Cluster"
        /\ healthLog[1].dbCheckParameters = entry.o.parameters
        /\ healthLog[1].operation
              = (IF entry.type = "start" THEN "dbCheckStart" ELSE "dbCheckStop")
        /\ healthLog[1].severity = (IF entry.mode = "kSecondary" THEN "Info" ELSE "Warning")
        /\ healthLog[1].data = NoData
        /\ snap = NoSnap /\ hasher = NoHasher

\* A stop applied during initial sync, with the parameter that skips batches
\* off, left a Warning entry that carries the parameters of the run.
C29_Witness ==
    /\ StartStopApplied
    /\ entry.type = "stop" /\ entry.mode = "kInitialSync"
    /\ ~params.skipParam
    /\ entry.o.parameters = "extraIndexKeysCheck"
    /\ Len(healthLog) = 1 /\ healthLog[1].severity = "Warning"
    /\ healthLog[1].dbCheckParameters = "extraIndexKeysCheck"

(***************************************************************************)
(* Claims about the decoding of the range (RangeSpec).                     *)
(***************************************************************************)
\* The range of the descriptor: each bound is the current field when present,
\* else the object with the legacy key as its _id.
CanonicalStart(o) ==
    IF o.batchStart # <<>> THEN o.batchStart[1] ELSE [field |-> "_id", elem |-> o.minKey]

CanonicalEnd(o) ==
    IF o.batchEnd # <<>> THEN o.batchEnd[1] ELSE [field |-> "_id", elem |-> o.maxKey]

\* The md5 stream of the documents of the collection after 'start', up to and
\* including 'end'.
StreamOfRange(start, end) ==
    LET inRange == SelectSeq(snap.docs, LAMBDA it : it.key > start /\ it.key <= end)
    IN [i \in 1..Len(inRange) |-> RecordBytes(inRange[i])]

\* C30: each bound of the range is decoded on its own, batchStart / batchEnd
\* when present, else {_id: minKey} / {_id: maxKey}; the batch verification
\* hashes that range, and the Warning entry of a skipped batch reports it.
C30_CanonicalRange ==
    entry # NoEntry =>
        /\ hasher # NoHasher =>
              /\ hasher.start = CanonicalStart(entry.o).elem
              /\ hasher.maxKey = CanonicalEnd(entry.o).elem
              /\ hasher.status = "OK" =>
                    hasher.state = StreamOfRange(CanonicalStart(entry.o).elem,
                                                 CanonicalEnd(entry.o).elem)
        /\ pc = "returned" /\ snap = NoSnap =>
              /\ Len(healthLog) = 1 /\ healthLog[1].severity = "Warning"
              /\ healthLog[1].data.batchStart = CanonicalStart(entry.o)
              /\ healthLog[1].data.batchEnd = CanonicalEnd(entry.o)

\* A descriptor with the legacy minKey 1 and no batchStart, and with batchEnd
\* 2 beside a legacy maxKey 1, was verified over two documents: the second was
\* hashed, the first not.
C30_Witness ==
    /\ pc = "returned" /\ hasher # NoHasher /\ hasher.status = "OK"
    /\ entry.o.batchStart = <<>> /\ entry.o.minKey = 1
    /\ entry.o.batchEnd # <<>> /\ entry.o.batchEnd[1].elem = 2 /\ entry.o.maxKey = 1
    /\ Len(snap.docs) = 2
    /\ hasher.state = <<RecordBytes(snap.docs[2])>>

(***************************************************************************)
(* Claims about the item count a batch reports (HasherSpec).               *)
(***************************************************************************)
\* C31: with the missing-keys check, countSeen = docsSeen + keysSeen (keysSeen
\* growing by one per index probe) never exceeds maxCount once more than one
\* document has been accepted.
C31_CountSeenWithinMaxCount ==
    (/\ CollectionRun
     /\ HasMissingKeysCheck(hasher.parameters)
     /\ hasher.countDocsSeen > 1) => countSeen(hasher) <= hasher.maxCount

(***************************************************************************)
(* Claims about chained batches (ChainSpec, FairChainSpec).                *)
(***************************************************************************)
\* The secondary has verified the batch that was just hashed.
ChainVerified == pc = "verified"

\* C32: when a collection-range hasher with ceilings or a deadline, run from
\* start to end, has finished with lastKeySeen L and digest D, a hasher without
\* ceilings over the range from start to L on the same data yields digest D,
\* the same docsSeen and the same bytesSeen, and the secondary's verification
\* of the batch logs an Info (consistent) batch result.
C32_CrossNodeAgreement ==
    ChainVerified =>
        /\ entry.hasher.status = "OK"
        /\ entry.hasher.start = hasher.start
        /\ entry.hasher.maxKey = hasher.lastKeySeen
        /\ entry.hasher.maxCount = Unlimited /\ entry.hasher.maxBytes = Unlimited
        /\ total(entry.hasher) = total(hasher)
        /\ entry.hasher.state = hasher.state
        /\ entry.hasher.countDocsSeen = hasher.countDocsSeen
        /\ entry.hasher.bytesSeen = hasher.bytesSeen
        /\ Len(entry.log) = 1
        /\ entry.log[1].severity = "Info"
        /\ entry.log[1].msg = "dbCheck batch consistent"

\* A batch that stopped on a ceiling after one document, before the end of
\* its range and with a document left, was verified as consistent.
C32_Witness ==
    /\ ChainVerified
    /\ hasher.stoppedAt = "ceiling"
    /\ hasher.countDocsSeen = 1
    /\ hasher.lastKeySeen < Len(snap.docs)
    /\ Len(entry.log) = 1 /\ entry.log[1].severity = "Info"

\* The batches of the chain: the closed ones and the one being hashed or
\* verified.
ChainBatches ==
    [i \in 1..Len(firstRun.batches) |-> firstRun.batches[i].hasher]
        \o (IF hasher = NoHasher THEN <<>> ELSE <<hasher>>)

\* The batches that folded the record of an item into their digest.
BatchesFolding(item) ==
    {b \in 1..Len(ChainBatches) :
        \E i \in 1..Len(ChainBatches[b].state) : ChainBatches[b].state[i] = RecordBytes(item)}

\* The items of the overall range that have a backing record.
ChainRecords == {snap.docs[i] : i \in {j \in 1..Len(snap.docs) : snap.docs[j].kind # "missing"}}

\* No document was hashed by two batches, and every batch hashed documents
\* after its start only.
NoneTwice ==
    \A i \in 1..Len(snap.docs) :
        /\ Cardinality(BatchesFolding(snap.docs[i])) <= 1
        /\ \A b \in BatchesFolding(snap.docs[i]) : snap.docs[i].key > ChainBatches[b].start

\* The chain has reached the end of the range, and every document with a
\* backing record was hashed by exactly one batch.
ChainCoveredAll ==
    /\ pc = "done"
    /\ firstRun.batches[Len(firstRun.batches)].hasher.lastKeySeen = MaxKey
    /\ \A item \in ChainRecords : Cardinality(BatchesFolding(item)) = 1

\* A batch of the chain has returned an error: it was interrupted, or met a
\* document without _id.
ChainFailed == hasher # NoHasher /\ hasher.status \in {"Interrupted", "NoSuchKey"}

\* A batch of the chain was interrupted.
ChainInterrupted == hasher # NoHasher /\ hasher.status = "Interrupted"

\* C33 as stated: with each batch started at the previous batch's lastKeySeen,
\* a chain that is not interrupted reaches lastKeySeen = end after finitely
\* many batches, with every document that has a backing record hashed in
\* exactly one batch.
C33_CoveredExactlyOnce == <>(ChainInterrupted \/ (ChainCoveredAll /\ NoneTwice))

\* C33, amended: unless one of its batches returns an error, the chain
\* reaches lastKeySeen = end after finitely many batches, with every document
\* that has a backing record hashed in exactly one batch, after the start of
\* that batch.
C33_CoveredExactlyOnceUnlessFailed == <>(ChainFailed \/ (ChainCoveredAll /\ NoneTwice))

\* A chain of three batches has reached the end: the first two hashed one
\* document each, the third none.
C33_Witness ==
    /\ ChainCoveredAll
    /\ Len(firstRun.batches) = 3
    /\ firstRun.batches[1].hasher.countDocsSeen = 1
    /\ firstRun.batches[2].hasher.countDocsSeen = 1
    /\ firstRun.batches[3].hasher.countDocsSeen = 0

(***************************************************************************)
(* Claims about lastKeySeen and about what validation changes (HasherSpec, *)
(* ValidatorSpec).                                                         *)
(***************************************************************************)
\* The keys of the items whose records were folded last into the digest.
LastFoldedKeys ==
    {RangeItems[i].key : i \in {j \in 1..Len(RangeItems) :
        /\ Len(hasher.state) > 0
        /\ RecordBytes(RangeItems[j]) = hasher.state[Len(hasher.state)]}}

\* C34: after hashForCollectionCheck has returned OK, lastKeySeen is the end
\* key of the range if the cursor was exhausted; if the scan stopped on a
\* ceiling or on the deadline it is the key of the last document folded into
\* the digest, which is not a missing item nor the rejected one.
C34_LastKeySeen ==
    (CollectionRun /\ hasher.status = "OK") =>
        /\ hasher.stoppedAt \in {"eof", "ceiling", "deadline"}
        /\ hasher.stoppedAt = "eof" => hasher.lastKeySeen = hasher.maxKey
        /\ hasher.stoppedAt \in {"ceiling", "deadline"} =>
              /\ LastFoldedKeys = {hasher.lastKeySeen}
              /\ \A i \in 1..Len(RangeItems) :
                    RangeItems[i].key = hasher.lastKeySeen =>
                        RangeItems[i].kind \notin {"missing", "noid"}
        /\ hasher.stoppedAt = "ceiling" => LastItem.key > hasher.lastKeySeen

\* A scan that folded the first document and stopped on a ceiling at the
\* second, which it rejected.
C34_Witness ==
    /\ CollectionRun /\ hasher.status = "OK"
    /\ hasher.stoppedAt = "ceiling"
    /\ hasher.lastKeySeen = 1
    /\ LastItem.key = 2
    /\ hasher.countDocsSeen = 1

RECURSIVE HashIterations(_, _, _)
\* hashForCollectionCheck after at most n iterations of its loop, without
\* interruption or deadline.
HashIterations(h, coll, n) ==
    IF n = 0 \/ h.status # "running" THEN h
    ELSE HashIterations(hashForCollectionCheck(h, coll, FALSE, FALSE).h, coll, n - 1)

\* The run over the same range and data in dataConsistency mode, without
\* ceilings, after as many iterations as the hasher has made.
DataConsistencyRun ==
    HashIterations(DbCheckHasher(snap, hasher.start, hasher.maxKey, "dataConsistency", FALSE,
                                 Unlimited, Unlimited),
                   snap, hasher.exec + (IF hasher.status = "running" THEN 0 ELSE 1))

\* C35: with ceilings that do not bind, the digest, docsSeen, bytesSeen and
\* lastKeySeen of a run with the missing-keys check equal those of a
\* dataConsistency run over the same range and data, whatever index keys are
\* missing.
C35_ValidationChangesNoHash ==
    (ValidatorRun /\ HasMissingKeysCheck(hasher.parameters)) =>
        /\ DataConsistencyRun.status = hasher.status
        /\ DataConsistencyRun.state = hasher.state
        /\ total(DataConsistencyRun) = total(hasher)
        /\ DataConsistencyRun.countDocsSeen = hasher.countDocsSeen
        /\ DataConsistencyRun.bytesSeen = hasher.bytesSeen
        /\ DataConsistencyRun.lastKeySeen = hasher.lastKeySeen
        /\ DataConsistencyRun.countKeysSeen = 0

\* A finished run over two documents that probed index keys and logged two
\* documents with missing keys.
C35_Witness ==
    /\ ValidatorRun /\ hasher.status = "OK"
    /\ hasher.countDocsSeen = 2
    /\ hasher.countKeysSeen > 0
    /\ Len(MissingKeysLog) = 2

(***************************************************************************)
(* Claims about the health log of chained batches (ChainSpec).             *)
(***************************************************************************)
\* The items of the overall range the scan reports as anomalous: a key without
\* a backing record, and, with the missing-keys check, a record that fails
\* validateBSON.
ChainAnomalies ==
    {snap.docs[i] : i \in {j \in 1..Len(snap.docs) :
        \/ snap.docs[j].kind = "missing"
        \/ /\ snap.docs[j].kind \in {"malformed", "nonconformant"}
           /\ \E b \in 1..Len(ChainBatches) : HasMissingKeysCheck(ChainBatches[b].parameters)}}

\* The health log of each batch of the chain.
ChainLogs ==
    [i \in 1..Len(firstRun.batches) |-> firstRun.batches[i].log]
        \o (IF hasher = NoHasher THEN <<>> ELSE <<healthLog>>)

\* The entries of a log that report an item as anomalous.
AnomalyEntries(log, item) ==
    {i \in 1..Len(log) :
        /\ log[i].msg \in {"Error fetching record from record id",
                           "Document is not well-formed BSON"}
        /\ log[i].data.context.recordID = item.key}

RECURSIVE CountAnomalyEntries(_, _)
CountAnomalyEntries(logs, item) ==
    IF logs = <<>> THEN 0
    ELSE Cardinality(AnomalyEntries(logs[1], item)) + CountAnomalyEntries(Tail(logs), item)

\* C36: across a chain of collection-mode batches, each started at the
\* previous batch's lastKeySeen, every anomalous item is reported by at most
\* one health log entry, by exactly one once the chain has reached the end of
\* the range, and not by a batch that stopped before it.
C36_AnomalyReportedOnce ==
    (firstRun.status = "chain") =>
        \A item \in ChainAnomalies :
            /\ CountAnomalyEntries(ChainLogs, item) <= 1
            /\ pc = "done" => CountAnomalyEntries(ChainLogs, item) = 1
            /\ \A b \in 1..Len(firstRun.batches) :
                  AnomalyEntries(firstRun.batches[b].log, item) # {} =>
                      item.key <= firstRun.batches[b].hasher.lastKeySeen

(***************************************************************************)
(* Claims about the processed-batches counter (ConcurrentSpec).            *)
(***************************************************************************)
\* The verifications that have loaded the counter: they reached the comparison.
ReachedComparison == {i \in DOMAIN pc : pc[i] \in {"loaded", "stored", "returned"} /\ hasher[i] # NoHasher}

\* The verifications that have stored the counter back.
Incremented == {i \in ReachedComparison : pc[i] \in {"stored", "returned"}}

\* No two verifications loaded the same value of the counter: no increment
\* fell between the load and the store of another.
NoOverlappingIncrement == \A i, j \in ReachedComparison : i # j => hasher[i].loaded # hasher[j].loaded

BatchEntryBuilt == pc = "built" /\ Len(healthLog) = 1

\* C38 as stated: success is true exactly when the expected and the found
\* digest are equal, and false when the severity is Warning or Error.
C38_SuccessTellsDigestsEqual ==
    BatchEntryBuilt =>
        /\ healthLog[1].data.success = (entry.expected = entry.found)
        /\ healthLog[1].severity \in {"Warning", "Error"} => ~healthLog[1].data.success

\* C38: the entry of a batch always has success = true, whether or not the
\* expected and the found digest are equal and whatever its severity is; the
\* outcome of the comparison is in the severity, Info exactly when the
\* digests are equal, and in the message.
C38_SuccessAlwaysTrue ==
    BatchEntryBuilt =>
        /\ healthLog[1].data.success
        /\ (healthLog[1].severity = "Info") = (entry.expected = entry.found)
        /\ healthLog[1].msg = IF entry.expected = entry.found
                              THEN "dbCheck batch consistent"
                              ELSE "dbCheck batch inconsistent"

\* An entry of severity Error for digests that differ, with success = true.
C38_Witness ==
    /\ BatchEntryBuilt
    /\ entry.expected # entry.found
    /\ healthLog[1].severity = "Error"
    /\ healthLog[1].data.success

(***************************************************************************)
(* Claims about termination (FairRunSpec).                                 *)
(***************************************************************************)
\* The run is at its end: dbCheckBatchOnSecondary has returned, or the hasher
\* that was run on its own has left its loop.
RunFinished == pc = "returned" \/ (entry = NoEntry /\ hasher.status # "running")

\* A step of a hashing loop takes the next item of the cursor, or finds the
\* cursor exhausted and leaves the loop at EOF.
IterationConsumesOne ==
    (pc = "hashing" /\ pc' = "hashing" /\ hasher.status = "running") =>
        \/ hasher'.exec = hasher.exec + 1
        \/ /\ hasher'.exec = hasher.exec
           /\ hasher'.status = "OK" /\ hasher'.stoppedAt = "eof"
           /\ hasher.exec >= Len(IF hasher.hasIndexName
                                 THEN IndexCursor(snap, hasher.start, hasher.maxKey)
                                 ELSE CollectionCursor(snap, hasher.start, hasher.maxKey))

\* A hashing loop has been left.
LoopLeft == pc \in {"hashing", "returned"} /\ hasher.status \in {"OK", "Interrupted", "NoSuchKey"}

\* The loop was left at EOF, a ceiling, the deadline, the ceiling of
\* consecutive identical keys, or an interrupt.
LeftAsListed ==
    \/ hasher.status = "OK" /\ hasher.stoppedAt \in {"eof", "ceiling", "deadline", "identicalKeys"}
    \/ hasher.status = "Interrupted"

\* C39 as stated: every run ends, every iteration consumes one item of the
\* cursor, and the loop is left at EOF, a ceiling, the deadline, the ceiling
\* of consecutive identical keys or an interrupt.
C39_TerminatesAsListed ==
    /\ <>RunFinished
    /\ [][IterationConsumesOne]_vars
    /\ [](LoopLeft => LeftAsListed)

\* C39: every call of dbCheckBatchOnSecondary returns and every hasher leaves
\* its loop; every iteration of either loop consumes one item of the cursor,
\* also when the record is missing from the record store; and the loop is
\* left at EOF, a ceiling, the deadline, the ceiling of consecutive identical
\* keys, an interrupt, or by the error return for a document without _id.
C39_Terminates ==
    /\ <>RunFinished
    /\ (pc = "verify") ~> (pc = "returned")
    /\ [][IterationConsumesOne]_vars
    /\ [](LoopLeft => (LeftAsListed \/ hasher.status = "NoSuchKey"))

\* dbCheckBatchOnSecondary has returned after a loop that passed over a record
\* missing from the record store and ended at EOF.
C39_Witness ==
    /\ pc = "returned"
    /\ hasher.status = "OK" /\ hasher.stoppedAt = "eof"
    /\ hasher.exec = 1 /\ countSeen(hasher) = 0
    /\ snap.docs[1].kind = "missing"

(***************************************************************************)
(* Claims about the counter at its width (WrapSpec).                       *)
(***************************************************************************)
\* 2^32 % n.
UIntRangeMod(n) == ((UIntHalf % n) * (UIntHalf % n)) % n

\* C40 as stated: across the wrap too, two batch entries logged one after the
\* other are dbCheckHealthLogEveryNBatches compared batches apart.
C40_EveryNthAcrossWrap == \A g \in firstRun.gaps : g.len = params.everyN

\* C40: the counter is an unsigned int of 32 bits whose largest value is
\* followed by 0, and the entry of a compared batch is logged exactly when the
\* counter is then a multiple of N.  Two entries logged one after the other
\* are N batches apart, except for the entry logged when the counter wraps to
\* 0: it is N batches after the one before only if N divides 2^32, and
\* 2^32 % N batches after it if not.
C40_SamplingAtWidth ==
    /\ batchesProcessed =
          IF firstRun.start + firstRun.compared < UIntHalf
          THEN [hi |-> UIntHalf - 1, lo |-> firstRun.start + firstRun.compared]
          ELSE [hi |-> 0, lo |-> firstRun.start + firstRun.compared - UIntHalf]
    /\ firstRun.compared > 0 =>
          ((healthLog # <<>>) = (UIntMod(batchesProcessed, params.everyN) = 0))
    /\ batchesProcessed = [hi |-> 0, lo |-> 0] => healthLog # <<>>
    /\ \A g \in firstRun.gaps :
          g.len = IF g.toZero /\ UIntRangeMod(params.everyN) # 0
                  THEN UIntRangeMod(params.everyN)
                  ELSE params.everyN

\* With N = 3 the counter has wrapped: the batch that took it to 0 was logged
\* one batch after the batch logged at the largest value, the others three
\* batches after the one before.
C40_Witness ==
    /\ params.everyN = 3
    /\ batchesProcessed.hi = 0
    /\ [len |-> 1, toZero |-> TRUE] \in firstRun.gaps
    /\ [len |-> 3, toZero |-> FALSE] \in firstRun.gaps

====
